---- MODULE Spec2Model ----
(***************************************************************************)
(* Model of the OpenRCT2 context: the tick scheduler of Context.cpp        *)
(* (RunGameLoop, RunFrame, UpdateTimeAccumulators, RunFixedFrame,          *)
(* RunVariableFrame, Tick, Draw, Finish, SetTimeScale), the entity tweener *)
(* it drives and the game action pipeline StaffSetOrdersAction goes        *)
(* through.  Spec is the game loop, SpecTick is Context::Tick on its own   *)
(* over every intro and title state, SpecActions is the action pipeline.   *)
(*                                                                         *)
(* Time is kept in fixed point.  One accumulator unit is half a            *)
(* millisecond, so the float arithmetic of the scheduler is modelled as    *)
(* exact arithmetic on the values the inputs below produce.  The time      *)
(* scale is kept in tenths (10 is 1.0f).                                   *)
(***************************************************************************)
EXTENDS Integers, Sequences, FiniteSets, TLC

\* ------------------------------------------------------------------ bounds

\* Number of polls (RunFrame calls) a behaviour explores.
MaxPolls == 3
\* Number of ticks of a behaviour during which the called code changes the
\* scheduler's inputs (Finish, SetTimeScale, game speed, pause).
MaxEffects == 1
\* Number of Tick() calls a behaviour of SpecTick explores.
MaxSoloTicks == 4

\* ------------------------------------------------------- program constants

\* Accumulator units per millisecond.
UnitsPerMs == 2
\* Tenths: the fixed-point denominator of the time scale.
ScaleOne == 10

\* Game.h: 1.0f / kGameUpdateFPS = 25 ms, in accumulator units.
kGameUpdateTimeMS == 50
\* Game.h: the number of ticks a poll may catch up.
kGameMaxUpdates == 4
kGameUpdateMaxThreshold == kGameUpdateTimeMS * kGameMaxUpdates
\* Game.h: 0.1f and 5.0f, in tenths.
kGameMinTimeScale == 1
kGameMaxTimeScale == 50
\* ShouldRunVariableFrame: the game speed above which frames are fixed.
kVariableFrameMaxSpeed == 4

\* ------------------------------------------------------------------ inputs

\* Timer::GetElapsedTimeAndRestart, in accumulator units: 5 ms, 10 ms, 30 ms
\* and a 250 ms stall.
Deltas == {10, 20, 60, 500}
\* Arguments of SetTimeScale, in tenths: below, inside and above the bounds.
\* At 4.9 a delta of 5 ms leaves the accumulator half a millisecond short of
\* one tick.
ScaleInputs == {0, 49, 80}
\* Values of gGameSpeed.
SpeedInputs == {4, 5}
\* Values of gIntroState: no intro, and two stages of a running intro.
IntroStates == {"None", "PublisherBegin", "LogoFadeIn"}
\* The entities of the park and the positions of the one-dimensional map.
Entities == {1}
MoveStep == 4
PosRange == 2 * MoveStep
NoPos == 0 - 1
\* Entity ids an action can name: the null id, two staff members and a guest.
NullEntity == 0
StaffIds == {1, 2}
EntityIds == {NullEntity, 1, 2, 3}
\* Values of the orders field, 0..MaxOrders.
MaxOrders == 2
OrderIds == 0..MaxOrders
\* Entity ids on the wire: those above and one that needs both bytes of the
\* 16-bit id.
WireEntityIds == EntityIds \cup {258}
\* Wire value of GameCommand::SetStaffOrders, the discriminant of the action.
SetStaffOrdersCommand == 1
ByteRange == 256
\* Context objects the process may construct, one after another or at once.
MaxContexts == 4
ContextIds == 1..MaxContexts
\* nullptr
NullContext == 0
\* Calls of Launch on one context.
MaxLaunches == 2
\* Calls of LoadParkFromStream.
MaxLoads == 2
\* FILE_TYPE values TryClassifyFile can report
FileTypes == {"PARK", "SAVED_GAME", "SCENARIO", "TRACK_DESIGN"}
\* The steps of LoadParkFromStream that run after the importer's
\* LoadFromStream has returned
StepsAfterRead == {"objects", "import", "setup", "init"}
\* NETWORK_MODE_NONE, NETWORK_MODE_CLIENT, NETWORK_MODE_SERVER
NetworkModes == {"NONE", "CLIENT", "SERVER"}

Min(a, b) == IF a < b THEN a ELSE b
Max(a, b) == IF a > b THEN a ELSE b

VARIABLES
    pc,                     \* position of the main thread
    _finished,
    _variableFrame,
    _ticksAccumulator,
    _realtimeAccumulator,
    _timeScale,
    gCurrentRealTimeTicks,
    deltaTime,              \* RunFrame's deltaTime
    useVariableFrame,       \* RunFrame's useVariableFrame
    shouldDraw,             \* RunVariableFrame's shouldDraw
    gOpenRCT2Headless,
    minimised,              \* _uiContext->IsMinimised()
    UncapFPS,               \* gConfigGeneral.UncapFPS
    gGameSpeed,
    gGamePaused,
    entPos,                 \* authoritative position of each entity
    entRender,              \* render-only position of each entity
    twPre,                  \* EntityTweener: the "from" samples
    twPost,                 \* EntityTweener: the "to" samples
    calls,                  \* the calls of the poll in progress, in order
    sleepMs,                \* argument of the poll's Platform::Sleep, or NoPos
    polls,                  \* history: RunFrame calls so far
    ticksRun,               \* history: Tick() calls so far
    pollTicks,              \* history: Tick() calls of the poll in progress
    sumDelta,               \* history: sum of the deltas of all polls
    dropped,                \* history: a poll lost time to the clamp
    scaleChanged,           \* history: the time scale changed after the first poll
    storedMode,             \* history: _variableFrame when the poll began
    accAfterUpdate,         \* history: _ticksAccumulator after the poll's update
    finishCalled,           \* history: Finish() has been called
    effects,                \* history: ticks that changed the scheduler's inputs
    staleAtPoll,            \* history: an interpolated offset was present when the poll began
    staffOrders,            \* game state: the orders of each staff member
    actLast,                \* the action last submitted, <<>> if none
    actQuery,               \* the verdict of its Query, "none" if Query did not run
    actExecuted,            \* whether its Execute ran
    actResult,              \* the Result returned to the caller
    actPaused,              \* whether the game was paused when it was submitted
    ordersBefore,           \* the game state when it was submitted
    gIntroState,
    gScreenTitleDemo,       \* gScreenFlags & SCREEN_FLAGS_TITLE_DEMO
    tickCalls,              \* the calls of the last Tick(), in order
    tickPre,                \* history: gIntroState and the title flag when it began
    tweenAlpha,             \* numerator of the alpha the poll passed to Tween, or NoPos
    lastScaleArg,           \* history: the argument of the last SetTimeScale, or NoPos
    sumKept,                \* history: scaled time the ticks accumulator took in
    sumRealKept,            \* history: time the real-time accumulator took in
    scaleAtPoll,            \* history: _timeScale when the poll began
    accBeforePoll,          \* history: _ticksAccumulator when the poll began
    serPc,                  \* round trip of one action: position
    serClassFlag,           \* the allowed-while-paused flag of the action's class
    serAction,              \* the action a
    serStart,               \* the game state both copies are executed against
    serWire,                \* Serialise(a)
    serDecoded,             \* Deserialise(Serialise(a))
    serWire2,               \* Serialise(Deserialise(Serialise(a)))
    serOutA,                \* result and state after a
    serOutB,                \* result and state after the decoded action
    _initialised,
    initFailure,            \* why Initialise returned false, or "none"
    launched,               \* Launch has been called
    exitCode,               \* what RunOpenRCT2 returned, or "none"
    Instance,               \* Context::Instance: a context, or NullContext
    ctxState,               \* each context object: where it is in its life
    assertFailed,           \* Guard::Assert has stopped the process
    _versionCheckFuture,    \* the future is valid: the task has been started
    _newVersionInfo,        \* what another thread sees of it: "empty", "partial", "full"
    _hasNewVersionInfo,
    verTask,                \* position of the asynchronous task
    verTagIsPrefix,         \* the fetched tag is a prefix of the running version's tag
    verLaunches,            \* history: calls of Launch
    verStarted,             \* history: tasks started
    verRead,                \* what the main thread's last poll read: flag and info
    loadPc,                 \* position inside LoadParkFromStream
    loadTitleScreenFirstOnFail, \* the parameter, as the function changes it
    loadArg,                \* history: the value the caller passed
    loadAsScenario,
    loadType,               \* info.Type of the classified file
    loadException,          \* the exception in flight, "none" if none
    loadFailedAt,           \* history: the step that threw, "none" if none
    loadResult,             \* "none", "true" or "false"
    loadTitleLoaded,        \* history: TitleLoad() ran during this call
    gameState,              \* "current", "partial", "loaded", "title"
    gameStateAtCall,        \* history: gameState when the call began
    loadCalls,              \* history: calls of LoadParkFromStream
    networkMode,            \* _network.GetMode(): "NONE", "CLIENT", "SERVER"
    networkModeAtCall,      \* history: the mode when the call began
    tweenerPairs,           \* the entity tweener holds pairs of the previous park
    loadTrace,              \* history: the calls made by this LoadParkFromStream
    initPc,                 \* position inside Initialise()
    initCallCount,          \* history: calls of Initialise()
    initThrown,             \* history: calls that threw "Context already initialised."
    initStepsByCall,        \* history: initialisation steps each call performed
    launchPc,               \* position inside Launch()
    gOpenRCT2StartupAction,
    startupConfigured,      \* history: gOpenRCT2StartupAction when Launch was called
    PlayIntro,              \* gConfigGeneral.PlayIntro
    launchTrace             \* history: what the startup switch of Launch called

schedVars == <<pc, _finished, _variableFrame, _ticksAccumulator, _realtimeAccumulator,
               _timeScale, gCurrentRealTimeTicks, deltaTime, useVariableFrame, shouldDraw>>
envVars == <<gOpenRCT2Headless, minimised, UncapFPS, gGameSpeed, gGamePaused>>
tweenVars == <<entPos, entRender, twPre, twPost>>
histVars == <<calls, sleepMs, polls, ticksRun, pollTicks, sumDelta, dropped, scaleChanged,
              storedMode, accAfterUpdate, finishCalled, effects, staleAtPoll>>
actVars == <<staffOrders, actLast, actQuery, actExecuted, actResult, actPaused, ordersBefore>>
tickVars == <<gIntroState, gScreenTitleDemo, tickCalls, tickPre>>
pollHist == <<sumKept, sumRealKept, scaleAtPoll, accBeforePoll>>
mainVars == <<schedVars, envVars, tweenVars, histVars, actVars, tickVars, pollHist,
              tweenAlpha, lastScaleArg>>
serVars == <<serPc, serClassFlag, serAction, serStart, serWire, serDecoded, serWire2,
             serOutA, serOutB>>
runVars == <<_initialised, initFailure, launched, exitCode>>
instVars == <<Instance, ctxState, assertFailed>>
verVars == <<_versionCheckFuture, _newVersionInfo, _hasNewVersionInfo, verTask,
             verTagIsPrefix, verLaunches, verStarted, verRead>>
loadVars == <<loadPc, loadTitleScreenFirstOnFail, loadArg, loadAsScenario, loadType,
              loadException, loadFailedAt, loadResult, loadTitleLoaded, gameState,
              gameStateAtCall, loadCalls, networkMode, networkModeAtCall, tweenerPairs,
              loadTrace>>
initVars == <<initPc, initCallCount, initThrown, initStepsByCall>>
launchVars == <<launchPc, gOpenRCT2StartupAction, startupConfigured, PlayIntro, launchTrace>>
startVars == <<initVars, launchVars>>
auxVars == <<serVars, runVars, instVars, verVars, loadVars, startVars>>
\* What a step of the round trip leaves alone
notSerVars == <<mainVars, runVars, instVars, verVars, loadVars, startVars>>
\* What constructing and destroying contexts leaves alone
notInstVars == <<mainVars, serVars, runVars, verVars, loadVars, startVars>>
\* What the version check leaves alone
notVerVars == <<mainVars, serVars, runVars, instVars, loadVars, startVars>>
\* What loading a park leaves alone
notLoadVars == <<mainVars, serVars, runVars, instVars, verVars, startVars>>
\* What the startup part of Launch leaves alone
notLaunchVars == <<schedVars, envVars, tweenVars, histVars, actVars, tickCalls, tickPre,
                   pollHist, tweenAlpha, lastScaleArg, serVars, runVars, instVars, verVars,
                   loadVars, initVars>>
\* What calls of Initialise leave alone
notInitVars == <<mainVars, serVars, launched, exitCode, instVars, verVars, loadVars,
                 launchVars>>
vars == <<mainVars, auxVars>>

\* ------------------------------------------------------------ pure helpers

\* deltaTime * _timeScale
ScaledDelta(d, scale) == (d * scale) \div ScaleOne

\* Faulty variant of SetTimeScaleValue: no lower bound.
SetTimeScaleValueNoMinimum(newScale) == Min(newScale, kGameMaxTimeScale)

\* std::clamp(newScale, kGameMinTimeScale, kGameMaxTimeScale)
SetTimeScaleValue(newScale) == Max(kGameMinTimeScale, Min(newScale, kGameMaxTimeScale))

ShouldDrawValue(headless, mini) ==
    IF headless THEN FALSE
    ELSE IF mini THEN FALSE
    ELSE TRUE

\* Faulty variant of ShouldRunVariableFrameValue: the fastest speed that still
\* runs Variable frames is taken for too fast.
ShouldRunVariableFrameValueOffByOne(headless, mini, uncap, speed) ==
    IF ~ShouldDrawValue(headless, mini) THEN FALSE
    ELSE IF ~uncap THEN FALSE
    ELSE IF speed >= kVariableFrameMaxSpeed THEN FALSE
    ELSE TRUE

ShouldRunVariableFrameValue(headless, mini, uncap, speed) ==
    IF ~ShouldDrawValue(headless, mini) THEN FALSE
    ELSE IF ~uncap THEN FALSE
    ELSE IF speed > kVariableFrameMaxSpeed THEN FALSE
    ELSE TRUE

ShouldDraw == ShouldDrawValue(gOpenRCT2Headless, minimised)
ShouldRunVariableFrame ==
    ShouldRunVariableFrameValue(gOpenRCT2Headless, minimised, UncapFPS, gGameSpeed)

\* Faulty variants of TicksAccumulatorUpdate: the time held from earlier polls
\* is thrown away; it is rescaled with the new delta; the time scale is not
\* applied; the clamp is missing.
TicksAccumulatorUpdateNoCarry(acc, d, scale) ==
    Min(ScaledDelta(d, scale), kGameUpdateMaxThreshold)
TicksAccumulatorUpdateRescaled(acc, d, scale) ==
    Min(((acc + d) * scale) \div ScaleOne, kGameUpdateMaxThreshold)
TicksAccumulatorUpdateUnscaled(acc, d, scale) ==
    Min(acc + d, kGameUpdateMaxThreshold)
TicksAccumulatorUpdateUnclamped(acc, d, scale) ==
    acc + ScaledDelta(d, scale)

\* _ticksAccumulator after UpdateTimeAccumulators
TicksAccumulatorUpdate(acc, d, scale) ==
    Min(acc + ScaledDelta(d, scale), kGameUpdateMaxThreshold)

\* Faulty variant of RealtimeClamped: the real-time accumulator is fed the
\* scaled delta.
RealtimeClampedScaled(racc, d) ==
    Min(racc + ScaledDelta(d, _timeScale), kGameUpdateMaxThreshold)

\* _realtimeAccumulator after the clamp and after the drain loop, and the
\* number of iterations of the drain loop
RealtimeClamped(racc, d) == Min(racc + d, kGameUpdateMaxThreshold)
RECURSIVE DrainCount(_)
DrainCount(racc) ==
    IF racc >= kGameUpdateTimeMS THEN 1 + DrainCount(racc - kGameUpdateTimeMS) ELSE 0
\* Faulty variant of DrainRest: an if where the code has a while.
DrainRestOnce(racc) ==
    IF racc >= kGameUpdateTimeMS THEN racc - kGameUpdateTimeMS ELSE racc
RECURSIVE DrainRest(_)
DrainRest(racc) ==
    IF racc >= kGameUpdateTimeMS THEN DrainRest(racc - kGameUpdateTimeMS) ELSE racc

\* Faulty variant of SleepArgument: a whole tick duration, whatever is pending.
SleepArgumentWholeTick(acc) == kGameUpdateTimeMS \div UnitsPerMs

\* static_cast<uint32_t>(sleepTimeSec * 1000.f)
SleepArgument(acc) == (kGameUpdateTimeMS - acc) \div UnitsPerMs

\* ------------------------------------------------------------- the tweener

NoSamples == [e \in Entities |-> NoPos]

\* EntityTweener::PreTick: the "from" sample of every entity; no "to" yet
PreTickPre(pos) == [e \in Entities |-> pos[e]]

\* EntityTweener::PostTick: the "to" sample of every entity
PostTickPost(pos) == [e \in Entities |-> pos[e]]

\* Linear interpolation at alpha = num / kGameUpdateTimeMS
Lerp(from, to, num) == from + ((to - from) * num) \div kGameUpdateTimeMS

\* EntityTweener::Tween(alpha): the render-only positions
TweenRender(render, pre, post, num) ==
    [e \in Entities |->
        IF pre[e] # NoPos /\ post[e] # NoPos THEN Lerp(pre[e], post[e], num) ELSE render[e]]

\* EntityTweener::Restore: the "to" sample goes back to the render-only field
RestoreRender(render, post) ==
    [e \in Entities |-> IF post[e] # NoPos THEN post[e] ELSE render[e]]

\* min(_ticksAccumulator / kGameUpdateTimeMS, 1.0f), as a numerator over
\* kGameUpdateTimeMS
AlphaNum(acc) == Min(acc, kGameUpdateTimeMS)

\* One simulation step: every entity moves unless the game is paused, and
\* the render-only position follows the authoritative one.
MovedPos(pos, paused) ==
    [e \in Entities |-> IF paused THEN pos[e] ELSE (pos[e] + MoveStep) % PosRange]

\* ------------------------------------------------------ what a tick can do

\* What the game state update, a script or a window does during one Tick():
\* nothing, Finish(), SetTimeScale(x), a game speed change, a pause toggle,
\* or a change of the uncapped-frame-rate option.
TickEffects ==
    {<<"none", 0>>, <<"finish", 0>>, <<"pause", 0>>}
        \cup {<<"scale", x>> : x \in ScaleInputs}
        \cup {<<"speed", v>> : v \in SpeedInputs}

\* Context::Finish
Finish == _finished' = TRUE

\* Context::SetTimeScale
SetTimeScale(newScale) == _timeScale' = SetTimeScaleValue(newScale)

\* Context::GetTimeScale
GetTimeScale == _timeScale

\* IntroUpdate: the intro stays in its stage, moves to the next, or ends
\* and loads the title screen
IntroNext(intro) ==
    IF intro = "PublisherBegin" THEN {"PublisherBegin", "LogoFadeIn"}
    ELSE IF intro = "LogoFadeIn" THEN {"LogoFadeIn", "None"}
    ELSE {"None"}

\* Faulty variant of TickBranch: the title screen ticks in a headless process too.
TickBranchTitleWhenHeadless(intro, title, headless) ==
    IF intro # "None" THEN "IntroUpdate"
    ELSE IF title THEN "TitleTick"
    ELSE "gameStateTick"

\* The branch of Tick: intro, title screen or one simulation step
TickBranch(intro, title, headless) ==
    IF intro # "None" THEN "IntroUpdate"
    ELSE IF title /\ ~headless THEN "TitleTick"
    ELSE "gameStateTick"

\* The calls of one Tick(), scripting compiled in and no Discord service
TickCallSequence(intro, title, headless) ==
    <<"DateUpdateRealTimeOfDay", TickBranch(intro, title, headless),
      "ChatUpdate", "ScriptEngineTick", "ProcessEvalQueue", "UiTick">>

\* Context::Tick, with the effect eff of the code it calls
Tick(eff) ==
    /\ tickPre' = <<gIntroState, gScreenTitleDemo>>
    /\ tickCalls' = TickCallSequence(gIntroState, gScreenTitleDemo, gOpenRCT2Headless)
    /\ gIntroState' \in IntroNext(gIntroState)
    /\ gScreenTitleDemo' = (gScreenTitleDemo \/ (gIntroState # "None" /\ gIntroState' = "None"))
    /\ lastScaleArg' = IF eff[1] = "scale" THEN eff[2] ELSE lastScaleArg
    /\ eff[1] = "none" \/ effects < MaxEffects
    /\ effects' = IF eff[1] = "none" THEN effects ELSE effects + 1
    /\ IF eff[1] = "finish" THEN Finish ELSE UNCHANGED _finished
    /\ finishCalled' = (finishCalled \/ eff[1] = "finish")
    /\ IF eff[1] = "scale" THEN SetTimeScale(eff[2]) ELSE UNCHANGED _timeScale
    /\ scaleChanged' = (scaleChanged \/ (eff[1] = "scale" /\ SetTimeScaleValue(eff[2]) # _timeScale))
    /\ gGameSpeed' = IF eff[1] = "speed" THEN eff[2] ELSE gGameSpeed
    /\ gGamePaused' = IF eff[1] = "pause" THEN ~gGamePaused ELSE gGamePaused
    /\ UNCHANGED UncapFPS
    /\ entPos' = IF TickBranch(gIntroState, gScreenTitleDemo, gOpenRCT2Headless)
                        = "gameStateTick"
                  THEN MovedPos(entPos, gGamePaused)
                  ELSE entPos
    /\ ticksRun' = ticksRun + 1
    /\ pollTicks' = pollTicks + 1

\* The render-only position of an entity the tick moved is its new position.
RenderAfterTick(render, old, new) ==
    [e \in Entities |-> IF new[e] # old[e] THEN new[e] ELSE render[e]]

\* ------------------------------------------------------ the action pipeline

\* The actions that can be submitted: StaffSetOrdersAction(spriteIndex,
\* ordersId), with or without the allowed-while-paused flag among its flags.
Actions ==
    [spriteIndex : EntityIds, ordersId : OrderIds, allowWhilePaused : BOOLEAN]

\* Faulty variant of Query: the null entity id is let through.
QueryAcceptsNull(a, orders) ==
    IF a.spriteIndex \in DOMAIN orders \/ a.spriteIndex = NullEntity
    THEN "Ok" ELSE "TargetNotFound"

\* Query: the target must be an existing staff member
Query(a, orders) ==
    IF a.spriteIndex \in DOMAIN orders THEN "Ok" ELSE "TargetNotFound"

\* Execute: the staff member takes the new orders
Execute(a, orders) ==
    IF a.spriteIndex \in DOMAIN orders
    THEN [orders EXCEPT ![a.spriteIndex] = a.ordersId]
    ELSE orders

\* Faulty variant of BlockedByPause: the flag is not looked at.
BlockedByPauseAlways(a, paused) == paused

\* Faulty variant of ExecutesAfter: Execute runs whatever Query said.
ExecutesAfterAnything(verdict) == TRUE

\* The dispatcher's pause check: an action runs while the game is paused
\* only if its flags exempt it
BlockedByPause(a, paused) == paused /\ ~a.allowWhilePaused

\* Whether the dispatcher calls Execute after the verdict of Query
ExecutesAfter(verdict) == verdict = "Ok"

\* Result and game state after the dispatcher has run a on orders, not paused
RunAction(a, orders) ==
    <<Query(a, orders),
      IF ExecutesAfter(Query(a, orders)) THEN Execute(a, orders) ELSE orders>>

\* Faulty variant of Serialise: the entity id is written as one byte.
SerialiseNarrowId(a) ==
    <<SetStaffOrdersCommand, 0, a.spriteIndex % ByteRange, a.ordersId % ByteRange>>

\* Serialise, writing: the discriminant, the 16-bit entity id as two bytes,
\* the 8-bit orders id
Serialise(a) ==
    <<SetStaffOrdersCommand, (a.spriteIndex \div ByteRange) % ByteRange,
      a.spriteIndex % ByteRange, a.ordersId % ByteRange>>

\* Serialise, reading: the fields back from the bytes; the flags are those
\* of the class the discriminant names
Deserialise(wire, classFlag) ==
    [spriteIndex |-> wire[2] * ByteRange + wire[3],
     ordersId |-> wire[4],
     allowWhilePaused |-> classFlag]

\* The dispatcher in a local session: the pause check, then Query, then
\* Execute if Query succeeded
Enqueue ==
    \E a \in Actions :
        /\ actLast' = a
        /\ actPaused' = gGamePaused
        /\ ordersBefore' = staffOrders
        /\ IF BlockedByPause(a, gGamePaused)
           THEN /\ actQuery' = "none"
                /\ actExecuted' = FALSE
                /\ actResult' = "GamePaused"
                /\ UNCHANGED staffOrders
           ELSE /\ actQuery' = Query(a, staffOrders)
                /\ actExecuted' = ExecutesAfter(actQuery')
                /\ actResult' = actQuery'
                /\ staffOrders' = IF actExecuted' THEN Execute(a, staffOrders)
                                  ELSE staffOrders

\* The game is paused or resumed between two submissions
TogglePause ==
    /\ gGamePaused' = ~gGamePaused
    /\ UNCHANGED <<gOpenRCT2Headless, minimised, UncapFPS, gGameSpeed>>
    /\ UNCHANGED <<schedVars, tweenVars, histVars, actVars>>
    /\ UNCHANGED <<tickVars, pollHist, tweenAlpha, lastScaleArg>>

\* ------------------------------------------------------------------- Init

\* No round trip under way
SerIdle ==
    /\ serPc = "idle"
    /\ serClassFlag = FALSE
    /\ serAction = <<>>
    /\ serStart = [id \in StaffIds |-> 0]
    /\ serWire = <<>>
    /\ serDecoded = <<>>
    /\ serWire2 = <<>>
    /\ serOutA = <<>>
    /\ serOutB = <<>>

\* Initialise has returned true and Launch is under way
RunLaunched ==
    /\ _initialised = TRUE
    /\ initFailure = "none"
    /\ launched = TRUE
    /\ exitCode = "none"

\* The process has constructed its one context
InstLive ==
    /\ Instance = 1
    /\ ctxState = [c \in ContextIds |-> IF c = 1 THEN "alive" ELSE "unborn"]
    /\ assertFailed = FALSE

\* No version check has been started
VerIdle ==
    /\ _versionCheckFuture = FALSE
    /\ _newVersionInfo = "empty"
    /\ _hasNewVersionInfo = FALSE
    /\ verTask = "none"
    /\ verTagIsPrefix = FALSE
    /\ verLaunches = 0
    /\ verStarted = 0
    /\ verRead = <<FALSE, "empty">>

\* No park load is in progress
LoadNotCalled ==
    /\ loadPc = "idle"
    /\ loadTitleScreenFirstOnFail = FALSE
    /\ loadArg = FALSE
    /\ loadAsScenario = FALSE
    /\ loadType = "PARK"
    /\ loadException = "none"
    /\ loadFailedAt = "none"
    /\ loadResult = "none"
    /\ loadTitleLoaded = FALSE
    /\ gameState = "current"
    /\ gameStateAtCall = "current"
    /\ loadCalls = 0
    /\ networkModeAtCall = "NONE"
    /\ loadTrace = <<>>

\* No park load is in progress, no network, nothing to interpolate
LoadIdle ==
    /\ LoadNotCalled
    /\ networkMode = "NONE"
    /\ tweenerPairs = FALSE

\* Initialise() has not been called through IContext
InitialiseIdle ==
    /\ initPc = "idle"
    /\ initCallCount = 0
    /\ initThrown = 0
    /\ initStepsByCall = <<>>

\* The startup part of Launch() is not looked at
LaunchIdle ==
    /\ launchPc = "idle"
    /\ gOpenRCT2StartupAction = "None"
    /\ startupConfigured = "None"
    /\ PlayIntro = FALSE
    /\ launchTrace = <<>>

StartIdle == InitialiseIdle /\ LaunchIdle

AuxIdle == SerIdle /\ RunLaunched /\ InstLive /\ VerIdle /\ LoadIdle /\ StartIdle

\* The fields of a new context and the history variables
InitFields ==
    /\ _finished = FALSE
    /\ _variableFrame = FALSE
    /\ _ticksAccumulator = 0
    /\ _realtimeAccumulator = 0
    /\ _timeScale = ScaleOne
    /\ gCurrentRealTimeTicks = 0
    /\ deltaTime = 0
    /\ useVariableFrame = FALSE
    /\ shouldDraw = FALSE
    /\ gOpenRCT2Headless \in BOOLEAN
    /\ minimised = FALSE
    /\ UncapFPS \in BOOLEAN
    /\ gGameSpeed = 1
    /\ gGamePaused = FALSE
    /\ entPos = [e \in Entities |-> 0]
    /\ entRender = [e \in Entities |-> 0]
    /\ twPre = NoSamples
    /\ twPost = NoSamples
    /\ calls = <<>>
    /\ sleepMs = NoPos
    /\ polls = 0
    /\ ticksRun = 0
    /\ pollTicks = 0
    /\ sumDelta = 0
    /\ dropped = FALSE
    /\ scaleChanged = FALSE
    /\ storedMode = FALSE
    /\ accAfterUpdate = 0
    /\ finishCalled = FALSE
    /\ effects = 0
    /\ staleAtPoll = FALSE
    /\ staffOrders = [id \in StaffIds |-> 0]
    /\ actLast = <<>>
    /\ actQuery = "none"
    /\ actExecuted = FALSE
    /\ actResult = "none"
    /\ actPaused = FALSE
    /\ ordersBefore = [id \in StaffIds |-> 0]
    /\ tickCalls = <<>>
    /\ tickPre = <<"None", FALSE>>
    /\ tweenAlpha = NoPos
    /\ lastScaleArg = NoPos
    /\ sumKept = 0
    /\ sumRealKept = 0
    /\ scaleAtPoll = ScaleOne
    /\ accBeforePoll = 0

\* The game loop is entered with no intro running and a park loaded.
\* Inside Launch, before the game loop
InitBase ==
    /\ pc = "start"
    /\ InitFields

InitMain ==
    /\ InitBase
    /\ gIntroState = "None"
    /\ gScreenTitleDemo = FALSE

\* A context has been constructed and RunOpenRCT2 is called on it.
Init ==
    /\ pc = "created"
    /\ InitFields
    /\ gIntroState = "None"
    /\ gScreenTitleDemo = FALSE
    /\ SerIdle
    /\ InstLive
    /\ VerIdle
    /\ LoadIdle
    /\ StartIdle
    /\ _initialised = FALSE
    /\ initFailure = "none"
    /\ launched = FALSE
    /\ exitCode = "none"

\* The pipeline is used in a launched game.
InitActions ==
    /\ InitMain
    /\ AuxIdle

\* Tick() is called in any intro stage, on the title screen or in a park.
InitTick ==
    /\ InitBase
    /\ gIntroState \in IntroStates
    /\ gScreenTitleDemo \in BOOLEAN
    /\ AuxIdle

\* ------------------------------------------------- calls before the loop

\* IContext::Finish called before RunOpenRCT2 reaches the game loop
FinishBeforeLoop ==
    /\ pc = "start"
    /\ ~finishCalled
    /\ Finish
    /\ finishCalled' = TRUE
    /\ UNCHANGED <<pc, _variableFrame, _ticksAccumulator, _realtimeAccumulator, _timeScale,
                   gCurrentRealTimeTicks, deltaTime, useVariableFrame, shouldDraw>>
    /\ UNCHANGED <<envVars, tweenVars>>
    /\ UNCHANGED <<calls, sleepMs, polls, ticksRun, pollTicks, sumDelta, dropped,
                   scaleChanged, storedMode, accAfterUpdate, effects, staleAtPoll>>
    /\ UNCHANGED <<tickVars, pollHist, tweenAlpha, lastScaleArg>>

\* Faulty variant of LaunchesAfter: Launch is called whatever Initialise
\* returned.
LaunchesAfterAnything(failure) == TRUE

\* RunOpenRCT2: if (Initialise()) { Launch(); ... }
LaunchesAfter(failure) == failure = "none"

\* Context::Initialise: the reason it returns false, "none" when it returns
\* true
InitialiseResult(langOk, fallbackOk, headless, pathEmpty, noGraphics, gfxOk) ==
    IF ~langOk /\ ~fallbackOk THEN "language"
    ELSE IF ~headless /\ pathEmpty THEN "path"
    ELSE IF ~noGraphics /\ ~gfxOk THEN "graphics"
    ELSE "none"

\* RunOpenRCT2: if (Initialise()) ... else return EXIT_FAILURE
RunInitialise ==
    /\ pc = "created"
    /\ ~_initialised
    /\ _initialised' = TRUE
    /\ \E langOk, fallbackOk, pathEmpty, noGraphics, gfxOk \in BOOLEAN :
        initFailure' = InitialiseResult(langOk, fallbackOk, gOpenRCT2Headless, pathEmpty,
                                        noGraphics, gfxOk)
    /\ pc' = IF LaunchesAfter(initFailure') THEN "initialised" ELSE "failed"
    /\ exitCode' = IF LaunchesAfter(initFailure') THEN "none" ELSE "EXIT_FAILURE"
    /\ UNCHANGED <<launched, serVars, instVars, verVars, loadVars, startVars>>
    /\ UNCHANGED <<_finished, _variableFrame, _ticksAccumulator, _realtimeAccumulator,
                   _timeScale, gCurrentRealTimeTicks, deltaTime, useVariableFrame, shouldDraw>>
    /\ UNCHANGED <<envVars, tweenVars, histVars, actVars, tickVars, pollHist, tweenAlpha,
                   lastScaleArg>>

\* RunOpenRCT2 called again on a context whose Initialise has run: Initialise
\* throws "Context already initialised."
RunInitialiseAgain ==
    /\ pc = "failed"
    /\ _initialised
    /\ pc' = "threw"
    /\ UNCHANGED <<runVars, serVars, instVars, verVars, loadVars, startVars>>
    /\ UNCHANGED <<_finished, _variableFrame, _ticksAccumulator, _realtimeAccumulator,
                   _timeScale, gCurrentRealTimeTicks, deltaTime, useVariableFrame, shouldDraw>>
    /\ UNCHANGED <<envVars, tweenVars, histVars, actVars, tickVars, pollHist, tweenAlpha,
                   lastScaleArg>>

\* RunOpenRCT2: Launch(), up to its call of RunGameLoop
Launch ==
    /\ pc = "initialised"
    /\ launched' = TRUE
    /\ pc' = "start"
    /\ UNCHANGED <<_initialised, initFailure, exitCode, serVars, instVars, verVars, loadVars, startVars>>
    /\ UNCHANGED <<_finished, _variableFrame, _ticksAccumulator, _realtimeAccumulator,
                   _timeScale, gCurrentRealTimeTicks, deltaTime, useVariableFrame, shouldDraw>>
    /\ UNCHANGED <<envVars, tweenVars, histVars, actVars, tickVars, pollHist, tweenAlpha,
                   lastScaleArg>>

\* RunOpenRCT2: return EXIT_SUCCESS once Launch has returned
RunReturn ==
    /\ pc = "exited"
    /\ exitCode = "none"
    /\ exitCode' = "EXIT_SUCCESS"
    /\ UNCHANGED <<pc, _initialised, initFailure, launched, serVars, instVars, verVars, loadVars, startVars>>
    /\ UNCHANGED <<_finished, _variableFrame, _ticksAccumulator, _realtimeAccumulator,
                   _timeScale, gCurrentRealTimeTicks, deltaTime, useVariableFrame, shouldDraw>>
    /\ UNCHANGED <<envVars, tweenVars, histVars, actVars, tickVars, pollHist, tweenAlpha,
                   lastScaleArg>>

\* IContext::SetTimeScale called before the game loop
SetTimeScaleBeforeLoop ==
    /\ pc = "start"
    /\ \E x \in ScaleInputs :
        /\ SetTimeScaleValue(x) # _timeScale
        /\ SetTimeScale(x)
        /\ lastScaleArg' = x
    /\ UNCHANGED <<tickVars, pollHist, tweenAlpha>>
    /\ UNCHANGED <<pc, _finished, _variableFrame, _ticksAccumulator, _realtimeAccumulator,
                   gCurrentRealTimeTicks, deltaTime, useVariableFrame, shouldDraw>>
    /\ UNCHANGED <<envVars, tweenVars, histVars>>

\* Context::RunGameLoop, up to the first RunFrame
RunGameLoop ==
    /\ pc = "start"
    /\ _finished' = FALSE
    /\ _variableFrame' = ShouldRunVariableFrame
    /\ pc' = "frame"
    /\ UNCHANGED <<_ticksAccumulator, _realtimeAccumulator, _timeScale,
                   gCurrentRealTimeTicks, deltaTime, useVariableFrame, shouldDraw>>
    /\ UNCHANGED <<envVars, tweenVars, histVars>>
    /\ UNCHANGED <<tickVars, pollHist, tweenAlpha, lastScaleArg>>

\* Faulty variant of LoopCheck: the loop does not look at _finished.
LoopCheckIgnoresFlag ==
    /\ pc = "frame_end"
    /\ pc' = "frame"
    /\ UNCHANGED <<_finished, _variableFrame, _ticksAccumulator, _realtimeAccumulator,
                   _timeScale, gCurrentRealTimeTicks, deltaTime, useVariableFrame, shouldDraw>>
    /\ UNCHANGED <<envVars, tweenVars, histVars>>
    /\ UNCHANGED <<tickVars, pollHist, tweenAlpha, lastScaleArg>>

\* The loop condition of RunGameLoop: while (!_finished)
LoopCheck ==
    /\ pc = "frame_end"
    /\ pc' = IF _finished THEN "exited" ELSE "frame"
    /\ UNCHANGED <<_finished, _variableFrame, _ticksAccumulator, _realtimeAccumulator,
                   _timeScale, gCurrentRealTimeTicks, deltaTime, useVariableFrame, shouldDraw>>
    /\ UNCHANGED <<envVars, tweenVars, histVars>>
    /\ UNCHANGED <<tickVars, pollHist, tweenAlpha, lastScaleArg>>

\* ---------------------------------------------------------------- RunFrame

\* Faulty variant of RunFrameResetCalls: Reset before Restore.
RunFrameResetCallsSwapped(stored, use) ==
    IF stored # use THEN <<"Reset", "Restore">> ELSE <<>>

\* Faulty variant of RunFrameRender: the switch does not restore the positions.
RunFrameRenderKept(stored, use, render, post) == render

\* The tween discontinuity reset of RunFrame: the calls it makes
RunFrameResetCalls(stored, use) ==
    IF stored # use THEN <<"Restore", "Reset">> ELSE <<>>

\* The render-only positions after RunFrame's mode check
RunFrameRender(stored, use, render, post) ==
    IF stored # use THEN RestoreRender(render, post) ELSE render

\* The tweener's samples after RunFrame's mode check
RunFrameSamples(stored, use, samples) ==
    IF stored # use THEN NoSamples ELSE samples

\* Context::UpdateTimeAccumulators
UpdateTimeAccumulators(d) ==
    /\ _ticksAccumulator' = TicksAccumulatorUpdate(_ticksAccumulator, d, _timeScale)
    /\ _realtimeAccumulator' = DrainRest(RealtimeClamped(_realtimeAccumulator, d))
    /\ gCurrentRealTimeTicks' =
           gCurrentRealTimeTicks + DrainCount(RealtimeClamped(_realtimeAccumulator, d))

\* Context::RunFrame up to the call of RunFixedFrame or RunVariableFrame
RunFrame ==
    /\ pc = "frame"
    /\ polls < MaxPolls
    /\ \E d \in Deltas :
        /\ deltaTime' = d
        /\ UpdateTimeAccumulators(d)
        /\ sumDelta' = sumDelta + d
        /\ dropped' = (dropped \/ _ticksAccumulator + ScaledDelta(d, _timeScale)
                                      > kGameUpdateMaxThreshold)
        /\ sumKept' = sumKept + Min((d * _timeScale) \div ScaleOne,
                                    kGameUpdateMaxThreshold - _ticksAccumulator)
        /\ sumRealKept' = sumRealKept + Min(d, kGameUpdateMaxThreshold - _realtimeAccumulator)
    /\ useVariableFrame' = ShouldRunVariableFrame
    /\ _variableFrame' = useVariableFrame'
    /\ entRender' = RunFrameRender(_variableFrame, useVariableFrame', entRender, twPost)
    /\ twPre' = RunFrameSamples(_variableFrame, useVariableFrame', twPre)
    /\ twPost' = RunFrameSamples(_variableFrame, useVariableFrame', twPost)
    /\ calls' = RunFrameResetCalls(_variableFrame, useVariableFrame')
                    \o <<"UpdateTimeAccumulators">>
    /\ pc' = IF useVariableFrame' THEN "variable" ELSE "fixed"
    /\ storedMode' = _variableFrame
    /\ staleAtPoll' = (\E e \in Entities : entRender[e] # entPos[e])
    /\ accAfterUpdate' = _ticksAccumulator'
    /\ polls' = polls + 1
    /\ pollTicks' = 0
    /\ sleepMs' = NoPos
    /\ UNCHANGED <<_finished, _timeScale, shouldDraw, entPos>>
    /\ UNCHANGED <<envVars, ticksRun, scaleChanged, finishCalled, effects>>
    /\ scaleAtPoll' = _timeScale
    /\ accBeforePoll' = _ticksAccumulator
    /\ tweenAlpha' = NoPos
    /\ UNCHANGED <<tickVars, lastScaleArg>>

\* _uiContext->ProcessMessages(): the window may be minimised or restored
ProcessMessages ==
    /\ minimised' \in (IF gOpenRCT2Headless THEN {FALSE} ELSE BOOLEAN)
    /\ UNCHANGED <<gOpenRCT2Headless, UncapFPS, gGameSpeed, gGamePaused>>

\* Context::Draw
Draw == <<"BeginDraw", "Paint", "EndDraw">>

\* ----------------------------------------------------------- RunFixedFrame

FixedProcessMessages ==
    /\ pc = "fixed"
    /\ ProcessMessages
    /\ calls' = Append(calls, "ProcessMessages")
    /\ pc' = "fixed_check"
    /\ UNCHANGED <<_finished, _variableFrame, _ticksAccumulator, _realtimeAccumulator,
                   _timeScale, gCurrentRealTimeTicks, deltaTime, useVariableFrame, shouldDraw>>
    /\ UNCHANGED <<tweenVars, sleepMs, polls, ticksRun, pollTicks, sumDelta, dropped,
                   scaleChanged, storedMode, accAfterUpdate, finishCalled, effects, staleAtPoll>>
    /\ UNCHANGED <<tickVars, pollHist, tweenAlpha, lastScaleArg>>

\* The run-ahead branch: if (_ticksAccumulator < kGameUpdateTimeMS)
FixedSleep ==
    /\ pc = "fixed_check"
    /\ _ticksAccumulator < kGameUpdateTimeMS
    /\ sleepMs' = SleepArgument(_ticksAccumulator)
    /\ calls' = Append(calls, "Sleep")
    /\ pc' = "frame_end"
    /\ UNCHANGED <<_finished, _variableFrame, _ticksAccumulator, _realtimeAccumulator,
                   _timeScale, gCurrentRealTimeTicks, deltaTime, useVariableFrame, shouldDraw>>
    /\ UNCHANGED <<envVars, tweenVars, polls, ticksRun, pollTicks, sumDelta, dropped,
                   scaleChanged, storedMode, accAfterUpdate, finishCalled, effects, staleAtPoll>>
    /\ UNCHANGED <<tickVars, pollHist, tweenAlpha, lastScaleArg>>

\* One iteration of while (_ticksAccumulator >= kGameUpdateTimeMS)
FixedTick ==
    /\ pc \in {"fixed_check", "fixed_loop"}
    /\ _ticksAccumulator >= kGameUpdateTimeMS
    /\ \E eff \in TickEffects : Tick(eff)
    /\ _ticksAccumulator' = _ticksAccumulator - kGameUpdateTimeMS
    /\ entRender' = RenderAfterTick(entRender, entPos, entPos')
    /\ calls' = Append(calls, "Tick")
    /\ pc' = "fixed_loop"
    /\ UNCHANGED <<_variableFrame, _realtimeAccumulator, gCurrentRealTimeTicks, deltaTime,
                   useVariableFrame, shouldDraw>>
    /\ UNCHANGED <<gOpenRCT2Headless, minimised, twPre, twPost>>
    /\ UNCHANGED <<sleepMs, polls, sumDelta, dropped, storedMode, accAfterUpdate, staleAtPoll>>
    /\ UNCHANGED <<pollHist, tweenAlpha>>

\* Faulty variant of FixedFinishCalls: the windows are updated before input
\* is handled.
FixedFinishCallsWindowsFirst(draw) ==
    <<"WindowUpdateAll", "HandleInput">> \o (IF draw THEN Draw ELSE <<>>)

\* Faulty variant of FixedFinishCalls: input is not handled.
FixedFinishCallsNoInput(draw) ==
    <<"WindowUpdateAll">> \o (IF draw THEN Draw ELSE <<>>)

\* Faulty variant of FixedFinishCalls: the drawn frame is interpolated.
FixedFinishCallsTween(draw) ==
    <<"HandleInput", "WindowUpdateAll">> \o (IF draw THEN <<"Tween">> \o Draw ELSE <<>>)

\* The calls after the tick loop
FixedFinishCalls(draw) ==
    <<"HandleInput", "WindowUpdateAll">> \o (IF draw THEN Draw ELSE <<>>)

\* After the loop: ContextHandleInput, WindowUpdateAll, Draw if ShouldDraw()
FixedFinish ==
    /\ pc = "fixed_loop"
    /\ _ticksAccumulator < kGameUpdateTimeMS
    /\ calls' = calls \o FixedFinishCalls(ShouldDraw)
    /\ pc' = "frame_end"
    /\ UNCHANGED <<_finished, _variableFrame, _ticksAccumulator, _realtimeAccumulator,
                   _timeScale, gCurrentRealTimeTicks, deltaTime, useVariableFrame, shouldDraw>>
    /\ UNCHANGED <<envVars, tweenVars, sleepMs, polls, ticksRun, pollTicks, sumDelta, dropped,
                   scaleChanged, storedMode, accAfterUpdate, finishCalled, effects, staleAtPoll>>
    /\ UNCHANGED <<tickVars, pollHist, tweenAlpha, lastScaleArg>>

\* -------------------------------------------------------- RunVariableFrame

\* Faulty variant of VariableTickCalls: PostTick is not called.
VariableTickCallsNoPostTick(draw) ==
    IF draw THEN <<"PreTick", "Tick">> ELSE <<"Tick">>

\* The calls of one iteration of the tick loop
VariableTickCalls(draw) ==
    IF draw THEN <<"PreTick", "Tick", "PostTick">> ELSE <<"Tick">>

\* Faulty variant of VariableFinishCalls: the frame is drawn before Tween.
VariableFinishCallsDrawFirst(draw) ==
    <<"HandleInput", "WindowUpdateAll">> \o (IF draw THEN Draw \o <<"Tween">> ELSE <<>>)

\* The calls after the tick loop
VariableFinishCalls(draw) ==
    <<"HandleInput", "WindowUpdateAll">> \o (IF draw THEN <<"Tween">> \o Draw ELSE <<>>)

\* const bool shouldDraw = ShouldDraw(); then ProcessMessages
VariableProcessMessages ==
    /\ pc = "variable"
    /\ shouldDraw' = ShouldDraw
    /\ ProcessMessages
    /\ calls' = Append(calls, "ProcessMessages")
    /\ pc' = "variable_loop"
    /\ UNCHANGED <<_finished, _variableFrame, _ticksAccumulator, _realtimeAccumulator,
                   _timeScale, gCurrentRealTimeTicks, deltaTime, useVariableFrame>>
    /\ UNCHANGED <<tweenVars, sleepMs, polls, ticksRun, pollTicks, sumDelta, dropped,
                   scaleChanged, storedMode, accAfterUpdate, finishCalled, effects, staleAtPoll>>
    /\ UNCHANGED <<tickVars, pollHist, tweenAlpha, lastScaleArg>>

\* One iteration of while (_ticksAccumulator >= kGameUpdateTimeMS)
VariableTick ==
    /\ pc = "variable_loop"
    /\ _ticksAccumulator >= kGameUpdateTimeMS
    /\ twPre' = IF shouldDraw THEN PreTickPre(entPos) ELSE twPre
    /\ \E eff \in TickEffects : Tick(eff)
    /\ _ticksAccumulator' = _ticksAccumulator - kGameUpdateTimeMS
    /\ entRender' = RenderAfterTick(entRender, entPos, entPos')
    /\ twPost' = IF shouldDraw THEN PostTickPost(entPos') ELSE twPost
    /\ calls' = calls \o VariableTickCalls(shouldDraw)
    /\ pc' = "variable_loop"
    /\ UNCHANGED <<_variableFrame, _realtimeAccumulator, gCurrentRealTimeTicks, deltaTime,
                   useVariableFrame, shouldDraw>>
    /\ UNCHANGED <<gOpenRCT2Headless, minimised>>
    /\ UNCHANGED <<sleepMs, polls, sumDelta, dropped, storedMode, accAfterUpdate, staleAtPoll>>
    /\ UNCHANGED <<pollHist, tweenAlpha>>

\* After the loop: ContextHandleInput, WindowUpdateAll, and if shouldDraw
\* Tween(alpha) and Draw
VariableFinish ==
    /\ pc = "variable_loop"
    /\ _ticksAccumulator < kGameUpdateTimeMS
    /\ entRender' = IF shouldDraw
                    THEN TweenRender(entRender, twPre, twPost, AlphaNum(_ticksAccumulator))
                    ELSE entRender
    /\ calls' = calls \o VariableFinishCalls(shouldDraw)
    /\ pc' = "frame_end"
    /\ UNCHANGED <<_finished, _variableFrame, _ticksAccumulator, _realtimeAccumulator,
                   _timeScale, gCurrentRealTimeTicks, deltaTime, useVariableFrame, shouldDraw>>
    /\ UNCHANGED <<envVars, entPos, twPre, twPost, sleepMs, polls, ticksRun, pollTicks,
                   sumDelta, dropped, scaleChanged, storedMode, accAfterUpdate, finishCalled, effects, staleAtPoll>>
    /\ tweenAlpha' = IF shouldDraw THEN AlphaNum(_ticksAccumulator) ELSE NoPos
    /\ UNCHANGED <<tickVars, pollHist, lastScaleArg>>

\* ---------------------------------------------------------- specification

\* The scheduler: the game loop from construction on.
Next ==
    \/ RunInitialise
    \/ RunInitialiseAgain
    \/ Launch
    \/ RunReturn
    \/ FinishBeforeLoop /\ UNCHANGED <<actVars, auxVars>>
    \/ SetTimeScaleBeforeLoop /\ UNCHANGED <<actVars, auxVars>>
    \/ RunGameLoop /\ UNCHANGED <<actVars, auxVars>>
    \/ RunFrame /\ UNCHANGED <<actVars, auxVars>>
    \/ FixedProcessMessages /\ UNCHANGED <<actVars, auxVars>>
    \/ FixedSleep /\ UNCHANGED <<actVars, auxVars>>
    \/ FixedTick /\ UNCHANGED <<actVars, auxVars>>
    \/ FixedFinish /\ UNCHANGED <<actVars, auxVars>>
    \/ VariableProcessMessages /\ UNCHANGED <<actVars, auxVars>>
    \/ VariableTick /\ UNCHANGED <<actVars, auxVars>>
    \/ VariableFinish /\ UNCHANGED <<actVars, auxVars>>
    \/ LoopCheck /\ UNCHANGED <<actVars, auxVars>>

Spec == Init /\ [][Next]_vars

\* The action pipeline: actions submitted in a local session, and the pause
\* state changing between submissions.
NextActions ==
    \/ Enqueue /\ UNCHANGED <<schedVars, envVars, tweenVars, histVars, tickVars, pollHist,
                              tweenAlpha, lastScaleArg, auxVars>>
    \/ TogglePause /\ UNCHANGED auxVars

SpecActions == InitActions /\ [][NextActions]_vars

\* Context::Tick called on its own, as a frame function calls it
TickAlone ==
    /\ ticksRun < MaxSoloTicks
    /\ \E eff \in TickEffects : Tick(eff)
    /\ entRender' = RenderAfterTick(entRender, entPos, entPos')
    /\ UNCHANGED <<pc, _variableFrame, _ticksAccumulator, _realtimeAccumulator,
                   gCurrentRealTimeTicks, deltaTime, useVariableFrame, shouldDraw>>
    /\ UNCHANGED <<gOpenRCT2Headless, minimised, twPre, twPost>>
    /\ UNCHANGED <<calls, sleepMs, polls, sumDelta, dropped, storedMode, accAfterUpdate,
                   staleAtPoll>>
    /\ UNCHANGED <<actVars, pollHist, tweenAlpha, auxVars>>

NextTick == TickAlone

SpecTick == InitTick /\ [][NextTick]_vars

\* -------------------------------------------------- the context singleton

\* GetContext
GetContext == Instance

\* No constructor or destructor is running.
NoneInProgress == \A c \in ContextIds : ctxState[c] \notin {"constructing", "destroying"}

\* Faulty variant of ConstructorAsserts: the constructor does not look at
\* Instance.
ConstructorAssertsNever(inst) == FALSE

\* Guard::Assert(Instance == nullptr) fails
ConstructorAsserts(inst) == inst # NullContext

\* No process has constructed a context yet.
InitInstance ==
    /\ InitMain
    /\ SerIdle
    /\ RunLaunched
    /\ VerIdle
    /\ LoadIdle
    /\ StartIdle
    /\ Instance = NullContext
    /\ ctxState = [c \in ContextIds |-> "unborn"]
    /\ assertFailed = FALSE

\* CreateContext: the member initialisers of a new Context run
ConstructBegin(c) ==
    /\ ~assertFailed
    /\ NoneInProgress
    /\ ctxState[c] = "unborn"
    /\ ctxState' = [ctxState EXCEPT ![c] = "constructing"]
    /\ UNCHANGED <<Instance, assertFailed>>

\* The constructor body: Guard::Assert(Instance == nullptr); Instance = this
ConstructBody(c) ==
    /\ ~assertFailed
    /\ ctxState[c] = "constructing"
    /\ IF ConstructorAsserts(Instance)
       THEN /\ assertFailed' = TRUE
            /\ UNCHANGED <<Instance, ctxState>>
       ELSE /\ Instance' = c
            /\ ctxState' = [ctxState EXCEPT ![c] = "alive"]
            /\ UNCHANGED assertFailed

\* The destructor body up to its last statement: the systems shut down
DestructBegin(c) ==
    /\ ~assertFailed
    /\ NoneInProgress
    /\ ctxState[c] = "alive"
    /\ ctxState' = [ctxState EXCEPT ![c] = "destroying"]
    /\ UNCHANGED <<Instance, assertFailed>>

\* Instance = nullptr, then the members are destroyed
DestructEnd(c) ==
    /\ ~assertFailed
    /\ ctxState[c] = "destroying"
    /\ Instance' = NullContext
    /\ ctxState' = [ctxState EXCEPT ![c] = "dead"]
    /\ UNCHANGED assertFailed

NextInstance ==
    \/ \E c \in ContextIds : ConstructBegin(c) /\ UNCHANGED notInstVars
    \/ \E c \in ContextIds : ConstructBody(c) /\ UNCHANGED notInstVars
    \/ \E c \in ContextIds : DestructBegin(c) /\ UNCHANGED notInstVars
    \/ \E c \in ContextIds : DestructEnd(c) /\ UNCHANGED notInstVars

SpecInstance == InitInstance /\ [][NextInstance]_vars

\* ------------------------------------------------- Initialise, called again

\* Calls of Initialise on one context.
MaxInitCalls == 4

\* A constructed context: Initialise() has not been called
InitInitialise ==
    /\ InitMain
    /\ SerIdle
    /\ InstLive
    /\ VerIdle
    /\ LoadIdle
    /\ StartIdle
    /\ _initialised = FALSE
    /\ initFailure = "none"
    /\ launched = FALSE
    /\ exitCode = "none"

\* Faulty variant of AlreadyInitialised: the guard never fires.
AlreadyInitialisedNever(initialised) == FALSE

\* if (_initialised) throw std::runtime_error("Context already initialised.")
AlreadyInitialised(initialised) == initialised

\* One more initialisation step performed by the call in progress
StepCounted == [initStepsByCall EXCEPT ![Len(initStepsByCall)] = @ + 1]

\* Initialise(): the guard and, if it passes, _initialised = true
InitialiseCall ==
    /\ initPc \in {"idle", "returned", "raised", "threw"}
    /\ initCallCount < MaxInitCalls
    /\ initCallCount' = initCallCount + 1
    /\ initStepsByCall' = Append(initStepsByCall, 0)
    /\ IF AlreadyInitialised(_initialised)
       THEN /\ initPc' = "threw"
            /\ initThrown' = initThrown + 1
            /\ UNCHANGED <<_initialised, initFailure>>
       ELSE /\ _initialised' = TRUE
            /\ initFailure' = "none"
            /\ initPc' = "language"
            /\ UNCHANGED initThrown

\* Initialise(): CrashInit() up to the language packs; return false if the
\* configured language and the fallback both fail to open
InitialiseLanguage(langOk, fallbackOk) ==
    /\ initPc = "language"
    /\ initFailure' = InitialiseResult(langOk, fallbackOk, TRUE, FALSE, TRUE, TRUE)
    /\ initPc' = IF initFailure' = "none" THEN "path" ELSE "returned"
    /\ initStepsByCall' = StepCounted
    /\ UNCHANGED <<_initialised, initCallCount, initThrown>>

\* Initialise(): the RCT2 data path; return false if it is needed and empty
InitialisePath(pathEmpty) ==
    /\ initPc = "path"
    /\ initFailure' = InitialiseResult(TRUE, TRUE, gOpenRCT2Headless, pathEmpty, TRUE, TRUE)
    /\ initPc' = IF initFailure' = "none" THEN "graphics" ELSE "returned"
    /\ initStepsByCall' = StepCounted
    /\ UNCHANGED <<_initialised, initCallCount, initThrown>>

\* Initialise(): repositories up to the base graphics; return false if
\* they are needed and fail to load, return true otherwise
InitialiseGraphics(noGraphics, gfxOk) ==
    /\ initPc = "graphics"
    /\ initFailure' = InitialiseResult(TRUE, TRUE, TRUE, FALSE, noGraphics, gfxOk)
    /\ initPc' = "returned"
    /\ initStepsByCall' = StepCounted
    /\ UNCHANGED <<_initialised, initCallCount, initThrown>>

\* Initialise(): a step throws (a repository, the UI context or a plugin
\* raises), and the call is left by the exception
InitialiseRaises ==
    /\ initPc \in {"language", "path", "graphics"}
    /\ initFailure' = "exception"
    /\ initPc' = "raised"
    /\ initStepsByCall' = StepCounted
    /\ UNCHANGED <<_initialised, initCallCount, initThrown>>

NextInitialise ==
    \/ InitialiseCall /\ UNCHANGED notInitVars
    \/ InitialiseRaises /\ UNCHANGED notInitVars
    \/ \E langOk, fallbackOk \in BOOLEAN :
            InitialiseLanguage(langOk, fallbackOk) /\ UNCHANGED notInitVars
    \/ \E pathEmpty \in BOOLEAN : InitialisePath(pathEmpty) /\ UNCHANGED notInitVars
    \/ \E noGraphics, gfxOk \in BOOLEAN :
            InitialiseGraphics(noGraphics, gfxOk) /\ UNCHANGED notInitVars

SpecInitialise == InitInitialise /\ [][NextInitialise]_vars

\* ------------------------------------------------- Launch: the startup action

\* StartupAction
StartupActions == {"None", "Intro", "Title", "Open", "Edit"}

\* Launch() is about to be called: any startup action may be configured,
\* and gIntroState holds what earlier code left in it
InitLaunch ==
    /\ InitBase
    /\ gIntroState \in IntroStates
    /\ gScreenTitleDemo = FALSE
    /\ SerIdle
    /\ RunLaunched
    /\ InstLive
    /\ VerIdle
    /\ LoadIdle
    /\ InitialiseIdle
    /\ launchPc = "idle"
    /\ gOpenRCT2StartupAction \in StartupActions
    /\ startupConfigured = gOpenRCT2StartupAction
    /\ PlayIntro \in BOOLEAN
    /\ launchTrace = <<>>

\* Faulty variant of NormalisedAction: a headless process keeps its action.
NormalisedActionHeadlessKept(action, headless, playIntro) ==
    IF action = "Title" /\ playIntro THEN "Intro" ELSE action

\* Launch: headless allows only None and Open; otherwise Title becomes
\* Intro if the intro is to be played
NormalisedAction(action, headless, playIntro) ==
    IF headless
    THEN (IF action # "Open" THEN "None" ELSE action)
    ELSE (IF action = "Title" /\ playIntro THEN "Intro" ELSE action)

\* Launch: gIntroState = IntroState::None and the adjustment of the action
LaunchNormalise ==
    /\ launchPc = "idle"
    /\ gIntroState' = "None"
    /\ gOpenRCT2StartupAction' =
            NormalisedAction(gOpenRCT2StartupAction, gOpenRCT2Headless, PlayIntro)
    /\ launchPc' = "switch"
    /\ UNCHANGED <<gScreenTitleDemo, startupConfigured, PlayIntro, launchTrace>>

\* The calls of the switch on gOpenRCT2StartupAction, headed by its case
\* label; loaded tells whether the park or landscape could be loaded and
\* raised whether the load was left by an exception or a failed download
StartupCalls(action, loaded, raised) ==
    <<action>> \o
    (IF action \in {"Intro", "Title"} THEN <<"TitleLoad">>
     ELSE IF action = "Open"
          THEN (IF loaded THEN <<"LoadPark", "GameLoadScripts">>
                ELSE IF raised THEN <<"LoadPark", "TitleLoad">>
                ELSE <<"LoadPark">>)
     ELSE IF action = "Edit"
          THEN (IF loaded THEN <<"EditorLoad">> ELSE <<"EditorLoadLandscape", "TitleLoad">>)
     ELSE <<>>)

\* TitleLoad() shows the title screen: SCREEN_FLAGS_TITLE_DEMO is set
TitleDemoAfter(trace, title) ==
    title \/ (\E i \in 1..Len(trace) : trace[i] = "TitleLoad")

\* Launch: switch (gOpenRCT2StartupAction), up to the call of RunGameLoop
LaunchStartup(loaded, raised) ==
    /\ launchPc = "switch"
    /\ launchTrace' = StartupCalls(gOpenRCT2StartupAction, loaded, raised)
    /\ gIntroState' = IF gOpenRCT2StartupAction = "Intro" THEN "PublisherBegin"
                       ELSE gIntroState
    /\ gScreenTitleDemo' = TitleDemoAfter(launchTrace', gScreenTitleDemo)
    /\ launchPc' = "loop"
    /\ UNCHANGED <<gOpenRCT2StartupAction, startupConfigured, PlayIntro>>

\* The first ticks of the game loop Launch has entered
TickAfterLaunch ==
    /\ launchPc = "loop"
    /\ TickAlone

NextLaunch ==
    \/ LaunchNormalise /\ UNCHANGED notLaunchVars
    \/ \E loaded, raised \in BOOLEAN : LaunchStartup(loaded, raised) /\ UNCHANGED notLaunchVars
    \/ TickAfterLaunch

SpecLaunch == InitLaunch /\ [][NextLaunch]_vars

\* ------------------------------------------------------ the version check

\* A launched context on which Launch may be called
InitVersion ==
    /\ InitMain
    /\ SerIdle
    /\ RunLaunched
    /\ InstLive
    /\ LoadIdle
    /\ StartIdle
    /\ VerIdle

\* Launch: if (!_versionCheckFuture.valid()) the task is started
LaunchVersionCheck ==
    /\ verLaunches < MaxLaunches
    /\ verLaunches' = verLaunches + 1
    /\ IF ~_versionCheckFuture
       THEN /\ _versionCheckFuture' = TRUE
            /\ verTask' = "running"
            /\ verStarted' = verStarted + 1
       ELSE UNCHANGED <<_versionCheckFuture, verTask, verStarted>>
    /\ UNCHANGED <<_newVersionInfo, _hasNewVersionInfo, verTagIsPrefix, verRead>>

\* The task: GetLatestVersion() returns, with a tag that is or is not a
\* prefix of gVersionInfoTag
TaskFetch ==
    /\ verTask = "running"
    /\ verTagIsPrefix' \in BOOLEAN
    /\ verTask' = "fetched"
    /\ UNCHANGED <<_versionCheckFuture, _newVersionInfo, _hasNewVersionInfo, verLaunches,
                   verStarted, verRead>>

\* The task: the store to _newVersionInfo becomes visible, field by field.
\* _newVersionInfo and _hasNewVersionInfo are plain fields read by the main
\* thread without synchronisation, so the two stores may become visible to
\* it in either order.
TaskStoreInfo ==
    /\ verTask = "fetched"
    /\ _newVersionInfo # "full"
    /\ _newVersionInfo' = IF _newVersionInfo = "empty" THEN "partial" ELSE "full"
    /\ UNCHANGED <<_versionCheckFuture, _hasNewVersionInfo, verTask, verTagIsPrefix,
                   verLaunches, verStarted, verRead>>

\* The task: if (!String::StartsWith(gVersionInfoTag, _newVersionInfo.tag))
\* the store _hasNewVersionInfo = true becomes visible
TaskStoreFlag ==
    /\ verTask = "fetched"
    /\ ~verTagIsPrefix
    /\ ~_hasNewVersionInfo
    /\ _hasNewVersionInfo' = TRUE
    /\ UNCHANGED <<_versionCheckFuture, _newVersionInfo, verTask, verTagIsPrefix,
                   verLaunches, verStarted, verRead>>

\* The task returns
TaskReturn ==
    /\ verTask = "fetched"
    /\ _newVersionInfo = "full"
    /\ verTagIsPrefix \/ _hasNewVersionInfo
    /\ verTask' = "done"
    /\ UNCHANGED <<_versionCheckFuture, _newVersionInfo, _hasNewVersionInfo,
                   verTagIsPrefix, verLaunches, verStarted, verRead>>

\* The main thread: HasNewVersionInfo(), and GetNewVersionInfo()
MainPollVersion ==
    /\ verRead' = <<_hasNewVersionInfo, _newVersionInfo>>
    /\ verRead' # verRead
    /\ UNCHANGED <<_versionCheckFuture, _newVersionInfo, _hasNewVersionInfo, verTask,
                   verTagIsPrefix, verLaunches, verStarted>>

NextVersion ==
    \/ LaunchVersionCheck /\ UNCHANGED notVerVars
    \/ TaskFetch /\ UNCHANGED notVerVars
    \/ TaskStoreInfo /\ UNCHANGED notVerVars
    \/ TaskStoreFlag /\ UNCHANGED notVerVars
    \/ TaskReturn /\ UNCHANGED notVerVars
    \/ MainPollVersion /\ UNCHANGED notVerVars

SpecVersion == InitVersion /\ [][NextVersion]_vars

\* ---------------------------------------------------------- loading a park

InitLoad ==
    /\ InitMain
    /\ SerIdle
    /\ RunLaunched
    /\ InstLive
    /\ VerIdle
    /\ LoadNotCalled
    /\ StartIdle
    /\ networkMode \in NetworkModes
    /\ tweenerPairs \in BOOLEAN

\* Faulty variant of FlagAfterRead: the caller's argument is kept.
FlagAfterReadKept(flag) == flag

\* loadTitleScreenFirstOnFail = true, once LoadFromStream has returned
FlagAfterRead(flag) == TRUE

\* IParkImporter::LoadFromStream reads the file into the importer's own
\* buffers: the game state is the one it found, whether it returns or throws
ImporterLoadFromStream(state) == state

\* TitleLoad() replaces the game state by the title screen's park
TitleLoad(state) == "title"

\* A throw inside the try block: control goes to the matching handler
LoadThrow(step, exception) ==
    /\ loadPc' = "catch"
    /\ loadException' = exception
    /\ loadFailedAt' = step

\* The call: parameters bound, nothing done yet
LoadParkFromStream(arg, asScenario) ==
    /\ loadPc \in {"idle", "returned"}
    /\ loadCalls < MaxLoads
    /\ loadCalls' = loadCalls + 1
    /\ loadPc' = "classify"
    /\ loadTitleScreenFirstOnFail' = arg
    /\ loadArg' = arg
    /\ loadAsScenario' = asScenario
    /\ loadException' = "none"
    /\ loadFailedAt' = "none"
    /\ loadResult' = "none"
    /\ loadTitleLoaded' = FALSE
    /\ gameStateAtCall' = gameState
    /\ networkModeAtCall' = networkMode
    /\ loadTrace' = <<>>
    /\ UNCHANGED <<loadType, gameState, networkMode, tweenerPairs>>

\* TryClassifyFile and the test of info.Type
LoadClassify(classified, type) ==
    /\ loadPc = "classify"
    /\ IF ~classified
       THEN LoadThrow("classify", "std::exception") /\ UNCHANGED loadType
       ELSE /\ loadType' = type
            /\ IF type \notin {"PARK", "SAVED_GAME", "SCENARIO"}
               THEN LoadThrow("type", "std::exception")
               ELSE /\ loadPc' = "read"
                    /\ UNCHANGED <<loadException, loadFailedAt>>
    /\ UNCHANGED <<loadTitleScreenFirstOnFail, loadArg, loadAsScenario, loadResult,
                   loadTitleLoaded, gameState, gameStateAtCall, loadCalls, networkMode,
                   networkModeAtCall, tweenerPairs, loadTrace>>

\* parkImporter->LoadFromStream(...): it returns, or it throws
LoadFromStream(outcome) ==
    /\ loadPc = "read"
    /\ IF outcome = "ok"
       THEN /\ loadTitleScreenFirstOnFail' = FlagAfterRead(loadTitleScreenFirstOnFail)
            /\ loadPc' = "objects"
            /\ UNCHANGED <<loadException, loadFailedAt>>
       ELSE /\ LoadThrow("read", outcome)
            /\ UNCHANGED loadTitleScreenFirstOnFail
    /\ gameState' = ImporterLoadFromStream(gameState)
    /\ loadTrace' = Append(loadTrace, "LoadFromStream")
    /\ UNCHANGED <<loadArg, loadAsScenario, loadType, loadResult, loadTitleLoaded,
                   gameStateAtCall, loadCalls, networkMode, networkModeAtCall,
                   tweenerPairs>>

\* GameUnloadScripts(); _objectManager->LoadObjects(result.RequiredObjects)
LoadObjects(outcome) ==
    /\ loadPc = "objects"
    /\ gameState' = "partial"
    /\ IF outcome = "ok"
       THEN loadPc' = "import" /\ UNCHANGED <<loadException, loadFailedAt>>
       ELSE LoadThrow("objects", outcome)
    /\ loadTrace' = loadTrace \o <<"GameUnloadScripts", "LoadObjects">>
    /\ UNCHANGED <<loadTitleScreenFirstOnFail, loadArg, loadAsScenario, loadType,
                   loadResult, loadTitleLoaded, gameStateAtCall, loadCalls, networkMode,
                   networkModeAtCall, tweenerPairs>>

\* parkImporter->Import(gameState)
LoadImport(outcome) ==
    /\ loadPc = "import"
    /\ gameState' = "partial"
    /\ IF outcome = "ok"
       THEN loadPc' = "setup" /\ UNCHANGED <<loadException, loadFailedAt>>
       ELSE LoadThrow("import", outcome)
    /\ loadTrace' = Append(loadTrace, "Import")
    /\ UNCHANGED <<loadTitleScreenFirstOnFail, loadArg, loadAsScenario, loadType,
                   loadResult, loadTitleLoaded, gameStateAtCall, loadCalls, networkMode,
                   networkModeAtCall, tweenerPairs>>

\* GameFixSaveVars(), MapAnimationAutoCreate(), EntityTweener::Get().Reset():
\* the setup between the import and the load initialisation. A throw comes
\* from GameFixSaveVars, before the tweener is reset.
LoadSetup(outcome) ==
    /\ loadPc = "setup"
    /\ gameState' = "partial"
    /\ IF outcome = "ok"
       THEN /\ loadPc' = "init"
            /\ tweenerPairs' = FALSE
            /\ loadTrace' = loadTrace
                    \o <<"GameFixSaveVars", "MapAnimationAutoCreate", "TweenerReset">>
            /\ UNCHANGED <<loadException, loadFailedAt>>
       ELSE /\ LoadThrow("setup", outcome)
            /\ loadTrace' = Append(loadTrace, "GameFixSaveVars")
            /\ UNCHANGED tweenerPairs
    /\ UNCHANGED <<loadTitleScreenFirstOnFail, loadArg, loadAsScenario, loadType,
                   loadResult, loadTitleLoaded, gameStateAtCall, loadCalls, networkMode,
                   networkModeAtCall>>

\* !asScenario && (info.Type == PARK || info.Type == SAVED_GAME)
UsesGameLoadInit(type, asScenario) == ~asScenario /\ type \in {"PARK", "SAVED_GAME"}

\* _network.Close() leaves the network in NETWORK_MODE_NONE
NetworkClose(mode) == "NONE"

\* Faulty variant of SendMapAfter: the map is sent whatever the mode is.
SendMapAfterAlways(mode) == <<"ServerSendMap">>

\* if (sendMap) _network.ServerSendMap(), sendMap being set where the mode
\* is NETWORK_MODE_SERVER
SendMapAfter(mode) == IF mode = "SERVER" THEN <<"ServerSendMap">> ELSE <<>>

\* The calls up to and including GameLoadInit() or ScenarioBegin()
LoadInitBegin(gameLoad, mode) ==
    IF gameLoad
    THEN (IF mode = "CLIENT" THEN <<"Close">> ELSE <<>>) \o <<"GameLoadInit">>
    ELSE <<"ScenarioBegin">>

\* The calls behind them, when they have returned
LoadInitEnd(gameLoad, mode) ==
    (IF ~gameLoad /\ mode = "CLIENT" THEN <<"Close">> ELSE <<>>)
        \o <<"PeepUpdateNames">> \o SendMapAfter(mode)

\* The load initialisation with its network part, the warnings, and
\* return true. A throw comes from GameLoadInit or ScenarioBegin.
LoadInit(outcome) ==
    /\ loadPc = "init"
    /\ LET gameLoad == UsesGameLoadInit(loadType, loadAsScenario)
       IN  IF outcome = "ok"
           THEN /\ gameState' = "loaded"
                /\ loadResult' = "true"
                /\ loadPc' = "returned"
                /\ loadTrace' = loadTrace \o LoadInitBegin(gameLoad, networkMode)
                                          \o LoadInitEnd(gameLoad, networkMode)
                /\ networkMode' = IF networkMode = "CLIENT"
                                  THEN NetworkClose(networkMode) ELSE networkMode
                /\ UNCHANGED <<loadException, loadFailedAt>>
           ELSE /\ gameState' = "partial"
                /\ LoadThrow("init", outcome)
                /\ loadTrace' = loadTrace \o LoadInitBegin(gameLoad, networkMode)
                /\ networkMode' = IF gameLoad /\ networkMode = "CLIENT"
                                  THEN NetworkClose(networkMode) ELSE networkMode
                /\ UNCHANGED loadResult
    /\ UNCHANGED <<loadTitleScreenFirstOnFail, loadArg, loadAsScenario, loadType,
                   loadTitleLoaded, gameStateAtCall, loadCalls, networkModeAtCall,
                   tweenerPairs>>

\* The catch handlers and the return false that follows them. The handler
\* of UnsupportedVersionException tests the flag like the three others.
LoadCatch ==
    /\ loadPc = "catch"
    /\ IF loadTitleScreenFirstOnFail
       THEN gameState' = TitleLoad(gameState) /\ loadTitleLoaded' = TRUE
       ELSE UNCHANGED <<gameState, loadTitleLoaded>>
    /\ loadException' = "none"
    /\ loadResult' = "false"
    /\ loadPc' = "returned"
    /\ UNCHANGED <<loadTitleScreenFirstOnFail, loadArg, loadAsScenario, loadType,
                   loadFailedAt, gameStateAtCall, loadCalls, networkMode,
                   networkModeAtCall, tweenerPairs, loadTrace>>

NextLoad ==
    \/ \E arg \in BOOLEAN, asScenario \in BOOLEAN :
            LoadParkFromStream(arg, asScenario) /\ UNCHANGED notLoadVars
    \/ \E classified \in BOOLEAN, type \in FileTypes :
            LoadClassify(classified, type) /\ UNCHANGED notLoadVars
    \/ \E outcome \in {"ok", "UnsupportedVersionException", "std::exception"} :
            LoadFromStream(outcome) /\ UNCHANGED notLoadVars
    \/ \E outcome \in {"ok", "ObjectLoadException", "std::exception"} :
            LoadObjects(outcome) /\ UNCHANGED notLoadVars
    \/ \E outcome \in {"ok", "UnsupportedRideTypeException", "std::exception"} :
            LoadImport(outcome) /\ UNCHANGED notLoadVars
    \/ \E outcome \in {"ok", "std::exception"} :
            LoadSetup(outcome) /\ UNCHANGED notLoadVars
    \/ \E outcome \in {"ok", "std::exception"} :
            LoadInit(outcome) /\ UNCHANGED notLoadVars
    \/ LoadCatch /\ UNCHANGED notLoadVars

SpecLoad == InitLoad /\ [][NextLoad]_vars

\* ------------------------------------------------ serialisation round trip

\* A staff-orders action with any entity id and orders id, and a game state
InitSerialise ==
    /\ InitMain
    /\ serPc = "made"
    /\ serClassFlag \in BOOLEAN
    /\ serAction \in [spriteIndex : WireEntityIds, ordersId : OrderIds,
                       allowWhilePaused : {serClassFlag}]
    /\ serStart \in [StaffIds -> OrderIds]
    /\ serWire = <<>>
    /\ serDecoded = <<>>
    /\ serWire2 = <<>>
    /\ serOutA = <<>>
    /\ serOutB = <<>>
    /\ RunLaunched
    /\ InstLive
    /\ VerIdle
    /\ LoadIdle
    /\ StartIdle

\* The sender writes the action to the stream
SerialiseStep ==
    /\ serPc = "made"
    /\ serWire' = Serialise(serAction)
    /\ serPc' = "sent"
    /\ UNCHANGED <<serClassFlag, serAction, serStart, serDecoded, serWire2, serOutA, serOutB>>

\* The receiver reads an action from the stream
DeserialiseStep ==
    /\ serPc = "sent"
    /\ serDecoded' = Deserialise(serWire, serClassFlag)
    /\ serPc' = "received"
    /\ UNCHANGED <<serClassFlag, serAction, serStart, serWire, serWire2, serOutA, serOutB>>

\* Both copies are run against the same starting state
ExecuteBothStep ==
    /\ serPc = "received"
    /\ serOutA' = RunAction(serAction, serStart)
    /\ serOutB' = RunAction(serDecoded, serStart)
    /\ serPc' = "executed"
    /\ UNCHANGED <<serClassFlag, serAction, serStart, serWire, serDecoded, serWire2>>

\* The received action is written to a stream again
ReserialiseStep ==
    /\ serPc = "executed"
    /\ serWire2' = Serialise(serDecoded)
    /\ serPc' = "resent"
    /\ UNCHANGED <<serClassFlag, serAction, serStart, serWire, serDecoded, serOutA, serOutB>>

NextSerialise ==
    \/ SerialiseStep /\ UNCHANGED notSerVars
    \/ DeserialiseStep /\ UNCHANGED notSerVars
    \/ ExecuteBothStep /\ UNCHANGED notSerVars
    \/ ReserialiseStep /\ UNCHANGED notSerVars

SpecSerialise == InitSerialise /\ [][NextSerialise]_vars

\* ------------------------------------------------------------------ claims

\* Positions of a call in the poll's call sequence
CallIndexes(name) == {i \in 1..Len(calls) : calls[i] = name}
CallCount(name) == Cardinality(CallIndexes(name))
\* A poll is in progress or has just ended
InPoll == pc \in {"fixed", "fixed_check", "fixed_loop", "variable", "variable_loop",
                  "frame_end"}

\* C1: at the end of every poll of a run fed deltas at a constant time scale
\* that sum to more than one tick duration and never lost time to the clamp,
\* the number of Tick() calls so far is floor(sum * timeScale / tickDuration),
\* whichever of the two modes each poll ran in.
C1_TicksMatchElapsedTime ==
    (/\ pc = "frame_end"
     /\ ~dropped
     /\ ~scaleChanged
     /\ sumDelta > kGameUpdateTimeMS)
        => ticksRun = ((sumDelta * _timeScale) \div ScaleOne) \div kGameUpdateTimeMS

\* C1 witness: three polls at time scale 4.9 that ran several ticks, the last
\* of them in the other mode than the one before.
C1_Witness ==
    /\ pc = "frame_end"
    /\ ~dropped
    /\ ~scaleChanged
    /\ _timeScale = 49
    /\ polls = 3
    /\ sumDelta > kGameUpdateTimeMS
    /\ ticksRun >= 2
    /\ storedMode # useVariableFrame

\* C2: after the accumulator update of a poll, whatever the delta and the
\* time scale, neither accumulator exceeds kGameUpdateMaxThreshold.
C2_AccumulatorsBounded ==
    polls > 0 =>
        /\ _ticksAccumulator <= kGameUpdateMaxThreshold
        /\ _realtimeAccumulator <= kGameUpdateMaxThreshold

\* C2 witness: a stall of 250 ms at time scale 5.0 has just been accumulated
\* and the ticks accumulator sits at the threshold.
C2_Witness ==
    /\ pc \in {"fixed", "variable"}
    /\ deltaTime = 500
    /\ _timeScale = kGameMaxTimeScale
    /\ _ticksAccumulator = kGameUpdateMaxThreshold

\* C6: once the finished flag is true no step of the context makes it false.
C6_FinishedWriteOnce == [][_finished => _finished']_vars

\* C7: a poll whose freshly evaluated mode differs from the stored one calls
\* Restore, then Reset, then updates the accumulators, and calls neither
\* again; a poll whose mode is unchanged calls neither.
C7_ResetOnModeSwitch ==
    /\ pc \in {"fixed", "variable"} => useVariableFrame = ShouldRunVariableFrame
    /\ InPoll =>
        IF storedMode # useVariableFrame
        THEN /\ Len(calls) >= 3
             /\ calls[1] = "Restore"
             /\ calls[2] = "Reset"
             /\ calls[3] = "UpdateTimeAccumulators"
             /\ CallIndexes("Restore") = {1}
             /\ CallIndexes("Reset") = {2}
             /\ _variableFrame = useVariableFrame
        ELSE /\ CallIndexes("Restore") = {}
             /\ CallIndexes("Reset") = {}
             /\ calls[1] = "UpdateTimeAccumulators"

\* C7 witness: a poll that switched from Variable to Fixed and ran a tick.
C7_Witness ==
    /\ pc = "frame_end"
    /\ storedMode
    /\ ~useVariableFrame
    /\ CallCount("Tick") >= 1

\* C8: when the poll that detected a mode switch has done its reset, the
\* render-only position of every entity is its authoritative position.
C8_NoArtifactAfterSwitch ==
    (pc \in {"fixed", "variable"} /\ storedMode # useVariableFrame)
        => \A e \in Entities : entRender[e] = entPos[e]

\* C8 witness: the switch was detected while an entity still showed an
\* interpolated offset.
C8_Witness ==
    /\ pc = "fixed"
    /\ storedMode # useVariableFrame
    /\ staleAtPoll

\* C9: in a Variable poll the calls between ProcessMessages and HandleInput
\* are (PreTick, Tick, PostTick) once per tick run, and every tick took one
\* tick duration off the ticks accumulator.
C9_VariableTicksBracketed ==
    (useVariableFrame /\ pc \in {"variable_loop", "frame_end"}) =>
        /\ Len(calls) >= 1
        /\ LET first == CHOOSE i \in 1..Len(calls) : calls[i] = "ProcessMessages"
           IN  /\ Len(calls) >= first + 3 * pollTicks
               /\ \A k \in 1..pollTicks :
                    /\ calls[first + 3 * k - 2] = "PreTick"
                    /\ calls[first + 3 * k - 1] = "Tick"
                    /\ calls[first + 3 * k] = "PostTick"
        /\ CallCount("PreTick") = pollTicks
        /\ CallCount("Tick") = pollTicks
        /\ CallCount("PostTick") = pollTicks
        /\ _ticksAccumulator = accAfterUpdate - pollTicks * kGameUpdateTimeMS

\* C9 witness: a Variable poll that ran two ticks.
C9_Witness ==
    /\ useVariableFrame
    /\ pc = "frame_end"
    /\ pollTicks = 2

\* C10 as stated: a Fixed poll whose accumulator is below one tick duration
\* after the update asks for a sleep of exactly tickDuration - accumulator
\* and returns without a tick, the accumulator untouched.
C10_SleepIsRemainder ==
    (pc = "frame_end" /\ ~useVariableFrame /\ accAfterUpdate < kGameUpdateTimeMS) =>
        /\ sleepMs * UnitsPerMs = kGameUpdateTimeMS - accAfterUpdate
        /\ pollTicks = 0
        /\ _ticksAccumulator = accAfterUpdate

\* C10 amended: the sleep asked for is tickDuration - accumulator truncated
\* to whole milliseconds; the poll makes no other call after ProcessMessages,
\* runs no tick and leaves the accumulator as the update left it.
C10_SleepIsTruncatedRemainder ==
    (pc = "frame_end" /\ ~useVariableFrame /\ accAfterUpdate < kGameUpdateTimeMS) =>
        /\ sleepMs >= 0
        /\ sleepMs * UnitsPerMs <= kGameUpdateTimeMS - accAfterUpdate
        /\ kGameUpdateTimeMS - accAfterUpdate < (sleepMs + 1) * UnitsPerMs
        /\ pollTicks = 0
        /\ CallCount("Tick") = 0
        /\ calls[Len(calls)] = "Sleep"
        /\ calls[Len(calls) - 1] = "ProcessMessages"
        /\ _ticksAccumulator = accAfterUpdate

\* C10 witness: a Fixed poll that slept with half a millisecond pending.
C10_Witness ==
    /\ pc = "frame_end"
    /\ ~useVariableFrame
    /\ accAfterUpdate = 1
    /\ sleepMs = 24

\* C3: for the action last submitted, if its Query failed then Execute did
\* not run and the game state is the one it was submitted against; Execute
\* ran only after a Query that succeeded.
C3_NoExecuteAfterFailedQuery ==
    /\ (actLast # <<>> /\ actQuery \notin {"Ok", "none"}) =>
            /\ ~actExecuted
            /\ staffOrders = ordersBefore
            /\ actResult = actQuery
    /\ actExecuted => actQuery = "Ok"

\* C3 witness: an action naming the guest was queried and refused.
C3_Witness ==
    /\ actLast # <<>>
    /\ actLast.spriteIndex = 3
    /\ actLast.ordersId = 1
    /\ actQuery = "TargetNotFound"

\* C5: submitted while the game is paused, an action without the
\* allowed-while-paused flag returns the paused failure and leaves the game
\* state alone; with the flag it is queried and, the query succeeding,
\* executed.
C5_PauseBlocksUnlessExempt ==
    (actLast # <<>> /\ actPaused) =>
        IF actLast.allowWhilePaused
        THEN /\ actQuery = Query(actLast, ordersBefore)
             /\ actQuery = "Ok" =>
                    /\ actExecuted
                    /\ actResult = "Ok"
                    /\ staffOrders = Execute(actLast, ordersBefore)
        ELSE /\ actResult = "GamePaused"
             /\ ~actExecuted
             /\ staffOrders = ordersBefore

\* C5 witness: paused, an exempt action changed a staff member's orders.
C5_Witness ==
    /\ actLast # <<>>
    /\ actPaused
    /\ actLast.allowWhilePaused
    /\ actResult = "Ok"
    /\ staffOrders # ordersBefore

\* ------------------------------------------------- claims on the game loop

\* C11 as stated: ProcessMessages and HandleInput are each called exactly once
\* in every poll, in both modes, also in a poll that runs no tick.
C11_MessagesAndInputOncePerPoll ==
    pc = "frame_end" =>
        /\ CallCount("ProcessMessages") = 1
        /\ CallCount("HandleInput") = 1

\* C11: ProcessMessages is called exactly once in every poll of either mode.
\* HandleInput is called exactly once, after the last tick, in every Variable
\* poll and in every Fixed poll that ran a tick; a Fixed poll that finds less
\* than one tick pending sleeps and returns without handling input.
C11_InputSkippedOnSleepPath ==
    pc = "frame_end" =>
        /\ CallCount("ProcessMessages") = 1
        /\ CallCount("HandleInput") =
                (IF ~useVariableFrame /\ pollTicks = 0 THEN 0 ELSE 1)
        /\ (~useVariableFrame /\ pollTicks = 0) <=> CallCount("Sleep") = 1
        /\ \A i \in CallIndexes("HandleInput") :
                /\ \A j \in CallIndexes("ProcessMessages") : j < i
                /\ \A j \in CallIndexes("Tick") : j < i

\* C11 witness: a Fixed poll that ran no tick and did not handle input.
C11_Witness ==
    /\ pc = "frame_end"
    /\ ~useVariableFrame
    /\ pollTicks = 0
    /\ CallCount("ProcessMessages") = 1
    /\ CallCount("HandleInput") = 0

\* The branch call of the last Tick() and its housekeeping calls
BranchCalls == {"IntroUpdate", "TitleTick", "gameStateTick"}
Housekeeping == <<"ChatUpdate", "ScriptEngineTick", "ProcessEvalQueue", "UiTick">>
TickCallIndexes(names) == {i \in 1..Len(tickCalls) : tickCalls[i] \in names}

\* C12: every tick makes exactly one branch call - the intro update while an
\* intro runs, else the title tick on the title screen of a process that is
\* not headless, else one simulation step - and after it the chat update,
\* the scripting tick, the console queue and the UI tick, in that order and
\* once each; no housekeeping call comes before the branch call.
C12_TickBranchThenHousekeeping ==
    ticksRun > 0 =>
        /\ Cardinality(TickCallIndexes(BranchCalls)) = 1
        /\ \A i \in TickCallIndexes(BranchCalls) :
            /\ tickCalls[i] = (IF tickPre[1] # "None" THEN "IntroUpdate"
                               ELSE IF tickPre[2] /\ ~gOpenRCT2Headless THEN "TitleTick"
                               ELSE "gameStateTick")
            /\ SubSeq(tickCalls, i + 1, Len(tickCalls)) = Housekeeping
            /\ \A j \in 1..(i - 1) :
                    \A k \in 1..Len(Housekeeping) : tickCalls[j] # Housekeeping[k]

\* C12 witness: a tick on the title screen of a process with a window.
C12_Witness ==
    /\ ticksRun > 0
    /\ tickPre = <<"None", TRUE>>
    /\ ~gOpenRCT2Headless
    /\ tickCalls[2] = "TitleTick"

\* C13: the render mode is decided once, when the poll begins: Variable
\* exactly when the process is not headless, the window is not minimised,
\* uncapped frame rate is on and the game speed is at most 4; else Fixed.
\* The frame function the poll runs is the one of that mode.
C13_RenderModeRule ==
    /\ pc \in {"fixed", "variable"} =>
            useVariableFrame = (/\ ~gOpenRCT2Headless
                                /\ ~minimised
                                /\ UncapFPS
                                /\ gGameSpeed <= 4)
    /\ pc \in {"fixed", "fixed_check", "fixed_loop"} => ~useVariableFrame
    /\ pc \in {"variable", "variable_loop"} => useVariableFrame
    /\ InPoll => _variableFrame = useVariableFrame

\* C13 witness: a poll in Variable mode at game speed 4, the fastest that
\* allows it.
C13_Witness ==
    /\ pc = "variable"
    /\ gGameSpeed = 4
    /\ polls > 1

\* C14: a Variable poll that draws calls Tween exactly once, after every tick
\* of the poll and after input and windows are handled, directly before the
\* frame is drawn; the alpha it passes is the time left in the accumulator
\* as a fraction of one tick, capped at 1, so between 0 and 1.
C14_TweenOnceBeforeDraw ==
    (pc = "frame_end" /\ useVariableFrame /\ shouldDraw) =>
        /\ CallCount("Tween") = 1
        /\ \A i \in CallIndexes("Tween") :
            /\ \A j \in CallIndexes("Tick") \cup CallIndexes("PostTick") : j < i
            /\ i + 3 = Len(calls)
            /\ SubSeq(calls, i + 1, i + 3) = <<"BeginDraw", "Paint", "EndDraw">>
        /\ CallCount("BeginDraw") = 1
        /\ tweenAlpha = (IF _ticksAccumulator >= kGameUpdateTimeMS
                         THEN kGameUpdateTimeMS ELSE _ticksAccumulator)
        /\ 0 <= tweenAlpha /\ tweenAlpha <= kGameUpdateTimeMS

\* C14 witness: a drawing Variable poll that ran two ticks and passed an alpha
\* strictly between 0 and 1.
C14_Witness ==
    /\ pc = "frame_end"
    /\ useVariableFrame
    /\ shouldDraw
    /\ pollTicks = 2
    /\ CallCount("Tween") = 1
    /\ 0 < tweenAlpha /\ tweenAlpha < kGameUpdateTimeMS

\* C15 as stated: whenever a poll of either mode has entered Draw, the process
\* is not headless and the window is not minimised, also when the window was
\* minimised during that poll's message processing.
C15_DrawOnlyWhenVisible ==
    (pc = "frame_end" /\ CallCount("BeginDraw") > 0) =>
        /\ ~gOpenRCT2Headless
        /\ ~minimised

\* The poll's delta, scaled, did not fit under the clamp
Saturated == accBeforePoll + (deltaTime * scaleAtPoll) \div ScaleOne > kGameUpdateMaxThreshold

\* C16: a poll whose delta saturates the accumulator leaves it at the clamp
\* and runs floor(threshold / tick) ticks, and no poll runs more; the time
\* above the clamp is gone: at the end of every poll the ticks run so far
\* and the time still held add up to the time the accumulator took in, and a
\* later poll that does not saturate runs the ticks of its carry and its
\* own delta only.
C16_StallTimeIsDropped ==
    /\ pollTicks <= kGameUpdateMaxThreshold \div kGameUpdateTimeMS
    /\ (InPoll /\ Saturated) => accAfterUpdate = kGameUpdateMaxThreshold
    /\ pc = "frame_end" =>
        /\ Saturated => pollTicks = kGameUpdateMaxThreshold \div kGameUpdateTimeMS
        /\ ticksRun * kGameUpdateTimeMS + _ticksAccumulator = sumKept
        /\ ~Saturated =>
                pollTicks = (accBeforePoll + (deltaTime * scaleAtPoll) \div ScaleOne)
                                \div kGameUpdateTimeMS

\* C16 witness: after a poll that lost time to the clamp, a later poll has
\* ended that did not saturate.
C16_Witness ==
    /\ pc = "frame_end"
    /\ polls >= 2
    /\ dropped
    /\ ~Saturated
    /\ sumKept < (sumDelta * scaleAtPoll) \div ScaleOne
    /\ ~scaleChanged

\* C17: time that did not make a whole tick is carried into the next poll;
\* a poll runs the whole ticks of carry plus scaled delta and keeps the
\* remainder.  At scale 1.0 three polls of 10 ms run no tick, no tick and
\* one tick, and 5 ms remain.
C17_RemainderCarried ==
    /\ (pc \in {"fixed", "variable"} /\ ~Saturated) =>
            _ticksAccumulator = accBeforePoll + (deltaTime * scaleAtPoll) \div ScaleOne
    /\ pc = "frame_end" =>
        /\ pollTicks = accAfterUpdate \div kGameUpdateTimeMS
        /\ _ticksAccumulator = accAfterUpdate % kGameUpdateTimeMS
        /\ (~scaleChanged /\ _timeScale = ScaleOne /\ deltaTime = 10 * UnitsPerMs) =>
            /\ (polls = 1 /\ sumDelta = 10 * UnitsPerMs) =>
                    ticksRun = 0 /\ _ticksAccumulator = 10 * UnitsPerMs
            /\ (polls = 2 /\ sumDelta = 20 * UnitsPerMs) =>
                    ticksRun = 0 /\ _ticksAccumulator = 20 * UnitsPerMs
            /\ (polls = 3 /\ sumDelta = 30 * UnitsPerMs /\ accBeforePoll = 20 * UnitsPerMs) =>
                    /\ pollTicks = 1
                    /\ ticksRun = 1
                    /\ _ticksAccumulator = 5 * UnitsPerMs

\* C17 witness: the third poll of 10 ms at scale 1.0 has ended.
C17_Witness ==
    /\ pc = "frame_end"
    /\ ~scaleChanged /\ _timeScale = ScaleOne
    /\ polls = 3
    /\ deltaTime = 10 * UnitsPerMs
    /\ sumDelta = 30 * UnitsPerMs
    /\ accBeforePoll = 20 * UnitsPerMs
    /\ pollTicks = 1

\* C18: gCurrentRealTimeTicks counts the whole tick durations of the real
\* time taken in, whatever the time scale, the render mode and the pause
\* state: it is a function of the deltas alone (each delta counted up to
\* the room under the clamp), and equals floor(sum of deltas / tick) as long
\* as no delta was cut by the clamp.
C18_RealTimeTicksIgnoreScale ==
    /\ gCurrentRealTimeTicks = sumRealKept \div kGameUpdateTimeMS
    /\ _realtimeAccumulator = sumRealKept % kGameUpdateTimeMS
    /\ sumRealKept = sumDelta => gCurrentRealTimeTicks = sumDelta \div kGameUpdateTimeMS

\* C18 witness: at a time scale other than 1.0 the real-time counter and the
\* number of logical ticks have moved apart.
C18_Witness ==
    /\ pc = "frame_end"
    /\ scaleAtPoll # ScaleOne
    /\ sumRealKept = sumDelta
    /\ gCurrentRealTimeTicks >= 1
    /\ gCurrentRealTimeTicks # ticksRun

\* std::clamp written out
ClampedScale(x) ==
    IF x < kGameMinTimeScale THEN kGameMinTimeScale
    ELSE IF x > kGameMaxTimeScale THEN kGameMaxTimeScale
    ELSE x

\* C19: the time scale is always within its bounds; after SetTimeScale(x) it
\* is x, or the nearer bound when x is out of bounds; a step that sets the
\* time scale leaves the real-time accumulator alone and does nothing to the
\* ticks accumulator (inside the tick loop, the loop takes its one tick).
C19_TimeScaleClamped ==
    /\ [](/\ kGameMinTimeScale <= GetTimeScale
          /\ GetTimeScale <= kGameMaxTimeScale
          /\ lastScaleArg # NoPos => GetTimeScale = ClampedScale(lastScaleArg))
    /\ [][(lastScaleArg' # lastScaleArg \/ _timeScale' # _timeScale) =>
            /\ _realtimeAccumulator' = _realtimeAccumulator
            /\ gCurrentRealTimeTicks' = gCurrentRealTimeTicks
            /\ IF pc \in {"fixed_check", "fixed_loop", "variable_loop"}
               THEN _ticksAccumulator' = _ticksAccumulator - kGameUpdateTimeMS
               ELSE _ticksAccumulator' = _ticksAccumulator]_vars

\* C19 witness: SetTimeScale was called inside a tick with a value above the
\* maximum and the scale is the maximum.
C19_Witness ==
    /\ pc \in {"fixed_loop", "variable_loop"}
    /\ lastScaleArg > kGameMaxTimeScale
    /\ _timeScale = kGameMaxTimeScale
    /\ scaleAtPoll # _timeScale
    /\ _ticksAccumulator > 0

\* C20: a new time scale is not applied to time already held: a poll adds
\* its delta, scaled by the scale in force when the poll begins, to the
\* unscaled carry; a scale set inside a tick leaves the number of ticks of
\* that poll and its remainder as the accumulator update fixed them.
C20_ScaleNotRetroactive ==
    /\ pc \in {"fixed", "variable"} =>
        /\ scaleAtPoll = _timeScale
        /\ accAfterUpdate = Min(accBeforePoll + (deltaTime * _timeScale) \div ScaleOne,
                                kGameUpdateMaxThreshold)
    /\ pc \in {"fixed_check", "fixed_loop", "variable_loop", "frame_end"} =>
            _ticksAccumulator = accAfterUpdate - pollTicks * kGameUpdateTimeMS
    /\ pc = "frame_end" =>
            pollTicks = Min(accBeforePoll + (deltaTime * scaleAtPoll) \div ScaleOne,
                            kGameUpdateMaxThreshold) \div kGameUpdateTimeMS

\* C20 witness: a poll with time carried in ran two ticks or more and the
\* first of them set another time scale.
C20_Witness ==
    /\ pc = "frame_end"
    /\ accBeforePoll > 0
    /\ pollTicks >= 2
    /\ scaleAtPoll # _timeScale

\* C21 as stated: every sleep the scheduler requests lasts more than zero and
\* at most one tick duration, a poll requests at most one, a Variable poll
\* none.
C21_SleepPositiveAndBounded ==
    /\ CallCount("Sleep") <= 1
    /\ useVariableFrame => CallCount("Sleep") = 0
    /\ CallCount("Sleep") = 1 =>
        /\ sleepMs > 0
        /\ sleepMs * UnitsPerMs <= kGameUpdateTimeMS

\* C21: the only sleep is the one of the Fixed run-ahead branch: a poll
\* requests at most one sleep, a Variable poll none, and the duration asked
\* for is a whole number of milliseconds from 0 to one tick duration, never
\* more than the time missing to the next tick, and 0 exactly when less than
\* one millisecond is missing.
C21_SleepBounded ==
    /\ CallCount("Sleep") <= 1
    /\ useVariableFrame => CallCount("Sleep") = 0
    /\ (InPoll /\ CallCount("Sleep") = 0) => sleepMs = NoPos
    /\ (InPoll /\ CallCount("Sleep") = 1) =>
        /\ pc = "frame_end"
        /\ calls[Len(calls)] = "Sleep"
        /\ sleepMs >= 0
        /\ sleepMs * UnitsPerMs <= kGameUpdateTimeMS - _ticksAccumulator
        /\ sleepMs * UnitsPerMs <= kGameUpdateTimeMS
        /\ sleepMs = 0 <=> kGameUpdateTimeMS - _ticksAccumulator < UnitsPerMs

\* C21 witness: a Fixed poll half a millisecond short of a tick asked for a
\* sleep of 0 ms.
C21_Witness ==
    /\ pc = "frame_end"
    /\ ~useVariableFrame
    /\ CallCount("Sleep") = 1
    /\ _ticksAccumulator = kGameUpdateTimeMS - 1
    /\ sleepMs = 0

\* --------------------------------------------- claims on the action pipeline

C23_UnknownStaffRejected ==
    (actLast # <<>> /\ actLast.spriteIndex \notin StaffIds) =>
        /\ ~actExecuted
        /\ staffOrders = ordersBefore
        /\ actResult # "Ok"
        /\ ~(actPaused /\ ~actLast.allowWhilePaused) =>
            /\ actQuery = "TargetNotFound"
            /\ actResult = "TargetNotFound"

\* C23 witness: an action with the default null entity id was submitted and
\* Query answered "target not found".
C23_Witness ==
    /\ actLast # <<>>
    /\ actLast.spriteIndex = NullEntity
    /\ actQuery = "TargetNotFound"
    /\ ~actExecuted
    /\ staffOrders = ordersBefore

\* --------------------------------------------------- claims on the start-up

\* C24: when Initialise returns false - the language and its fallback do not
\* load, no game data path is given, the base graphics do not load -
\* RunOpenRCT2 returns EXIT_FAILURE and Launch is not called: no frame, no
\* tick and no action is ever run for the context, also not by calling
\* RunOpenRCT2 again; and a game loop runs only after Initialise returned
\* true.
C24_InitFailureNeverLaunches ==
    /\ initFailure # "none" =>
        /\ pc \in {"failed", "threw"}
        /\ exitCode = "EXIT_FAILURE"
        /\ ~launched
        /\ polls = 0 /\ ticksRun = 0 /\ calls = <<>> /\ tickCalls = <<>>
        /\ actLast = <<>>
    /\ exitCode = "EXIT_FAILURE" => initFailure # "none"
    /\ (launched \/ polls > 0 \/ ticksRun > 0) => (_initialised /\ initFailure = "none")

\* C24 witness: the base graphics failed to load, RunOpenRCT2 returned
\* EXIT_FAILURE and a second call threw.
C24_Witness ==
    /\ pc = "threw"
    /\ initFailure = "graphics"
    /\ exitCode = "EXIT_FAILURE"
    /\ ~launched

\* The contexts whose constructor has finished and whose destructor has not
LiveContexts == {c \in ContextIds : ctxState[c] \in {"alive", "destroying"}}

\* C25: at most one context is live at any time; while one is live
\* GetContext returns it, and while none is GetContext returns null, also
\* after a destructor has run; the constructor's assertion fails only when
\* a context is constructed while another is live, and that second context
\* never becomes live.
C25_SingleContext ==
    /\ Cardinality(LiveContexts) <= 1
    /\ \A c \in LiveContexts : GetContext = c
    /\ LiveContexts = {} => GetContext = NullContext
    /\ assertFailed =>
            (LiveContexts # {} /\ \E c \in ContextIds : ctxState[c] = "constructing")

\* C25 witness: a context was destroyed, a second was constructed and is
\* the one GetContext returns, and constructing a third failed the assertion.
C25_Witness ==
    /\ ctxState[1] = "dead"
    /\ ctxState[2] = "alive"
    /\ GetContext = 2
    /\ ctxState[3] = "constructing"
    /\ assertFailed

\* ------------------------------------------- more claims on the game loop

TickLoopCalls == CallIndexes("PreTick") \cup CallIndexes("Tick") \cup CallIndexes("PostTick")
DrawCalls == CallIndexes("Tween") \cup CallIndexes("BeginDraw") \cup CallIndexes("Paint")
                \cup CallIndexes("EndDraw")

\* C26: in a poll that runs a tick the steps come in one order: the tween
\* reset if the mode changed, the accumulator update, ProcessMessages, all
\* ticks of the poll, HandleInput, WindowUpdateAll directly after it, and
\* what belongs to drawing after that, the frame's EndDraw being the last
\* call; nothing but tick-loop calls lies between two ticks.
C26_PollStepOrder ==
    (pc = "frame_end" /\ pollTicks >= 1) =>
        /\ CallCount("UpdateTimeAccumulators") = 1
        /\ CallCount("ProcessMessages") = 1
        /\ CallCount("Tick") = pollTicks
        /\ CallCount("HandleInput") = 1
        /\ CallCount("WindowUpdateAll") = 1
        /\ \A u \in CallIndexes("UpdateTimeAccumulators"), m \in CallIndexes("ProcessMessages"),
              h \in CallIndexes("HandleInput"), w \in CallIndexes("WindowUpdateAll") :
            /\ \A r \in CallIndexes("Restore") \cup CallIndexes("Reset") : r < u
            /\ (storedMode # useVariableFrame) <=> (u = 3 /\ calls[1] = "Restore"
                                                         /\ calls[2] = "Reset")
            /\ (storedMode = useVariableFrame) <=> u = 1
            /\ m = u + 1
            /\ \A t \in TickLoopCalls : m < t /\ t < h
            /\ \A i \in (m + 1)..(h - 1) : i \in TickLoopCalls
            /\ w = h + 1
            /\ \A d \in DrawCalls : w < d
            /\ \A i \in (w + 1)..Len(calls) : i \in DrawCalls
            /\ CallCount("BeginDraw") <= 1
            /\ CallCount("BeginDraw") = 1 =>
                    SubSeq(calls, Len(calls) - 2, Len(calls)) = <<"BeginDraw", "Paint", "EndDraw">>

\* C26 witness: a poll that switched the mode, ran two ticks and drew.
C26_Witness ==
    /\ pc = "frame_end"
    /\ pollTicks = 2
    /\ storedMode # useVariableFrame
    /\ calls[1] = "Restore"
    /\ CallCount("EndDraw") = 1

\* C27: at the end of every poll of either mode both accumulators are at
\* least 0 and below one tick duration, and the poll has run every whole
\* tick the accumulator held after its update.
C27_AccumulatorsDrained ==
    pc = "frame_end" =>
        /\ 0 <= _ticksAccumulator /\ _ticksAccumulator < kGameUpdateTimeMS
        /\ 0 <= _realtimeAccumulator /\ _realtimeAccumulator < kGameUpdateTimeMS
        /\ pollTicks * kGameUpdateTimeMS <= accAfterUpdate
        /\ accAfterUpdate < (pollTicks + 1) * kGameUpdateTimeMS
        /\ _ticksAccumulator = accAfterUpdate - pollTicks * kGameUpdateTimeMS

\* C27 witness: a Fixed poll that took in a stall at time scale 5.0 has
\* drained the clamped accumulator to zero.
C27_Witness ==
    /\ pc = "frame_end"
    /\ ~useVariableFrame
    /\ accAfterUpdate = kGameUpdateMaxThreshold
    /\ scaleAtPoll = kGameMaxTimeScale
    /\ pollTicks = kGameMaxUpdates
    /\ _ticksAccumulator = 0

\* C28: once Finish has been called from inside a frame, the flag stays set,
\* the poll under way runs all its ticks and its input and window steps,
\* the loop check that follows it leaves the loop, and no further poll
\* begins; the loop is never left before it has run a frame.
C28_FinishEndsLoopAfterFrame ==
    /\ [](pc \in {"frame_end", "exited"} => polls >= 1)
    /\ [](pc = "exited" =>
            /\ _finished
            /\ pollTicks >= 1
            /\ _ticksAccumulator = accAfterUpdate - pollTicks * kGameUpdateTimeMS
            /\ _ticksAccumulator < kGameUpdateTimeMS
            /\ CallCount("HandleInput") = 1
            /\ CallCount("WindowUpdateAll") = 1)
    /\ [][(_finished /\ InPoll) =>
            /\ _finished'
            /\ polls' = polls
            /\ pc' # "frame"
            /\ pc = "frame_end" => pc' \in {"frame_end", "exited"}]_vars
    /\ [][pc = "exited" => (pc' = "exited" /\ polls' = polls /\ ticksRun' = ticksRun)]_vars

\* C28 witness: Finish was called in a poll of two ticks, the second poll of
\* the run, and the loop has been left after it.
C28_Witness ==
    /\ pc = "exited"
    /\ _finished
    /\ polls = 2
    /\ pollTicks = 2
    /\ CallCount("HandleInput") = 1

\* ------------------------------------------- claims on the version check

C30_FailedLoadFallsBackToTitle ==
    loadPc = "returned" =>
        /\ (loadResult = "false") <=> (loadFailedAt # "none")
        /\ (loadResult = "true") <=> (loadFailedAt = "none")
        /\ loadFailedAt \in StepsAfterRead =>
               loadTitleLoaded /\ gameState = "title"
        /\ loadFailedAt \in {"classify", "type", "read"} =>
               /\ loadTitleLoaded <=> loadArg
               /\ ~loadArg => gameState = gameStateAtCall
        /\ loadFailedAt = "none" => ~loadTitleLoaded /\ gameState = "loaded"

\* A load that failed after the read, called with false, has loaded the title
C30_Witness ==
    /\ loadPc = "returned"
    /\ loadFailedAt \in StepsAfterRead
    /\ ~loadArg
    /\ loadTitleLoaded
    /\ loadResult = "false"

\* Positions of a call in the trace of the current load
TracePositions(call) == {i \in 1..Len(loadTrace) : loadTrace[i] = call}

\* C31: after a successful LoadParkFromStream the tweener was reset after
\* the import and holds no pair, the network is not a client (a client
\* connection found by the call was closed), and a server has sent the
\* map exactly once, after the import and after GameLoadInit or
\* ScenarioBegin; otherwise no map is sent.
C31_SuccessfulLoadLeavesCleanState ==
    (loadPc = "returned" /\ loadResult = "true") =>
        /\ ~tweenerPairs
        /\ \E r \in TracePositions("TweenerReset") :
               \A i \in TracePositions("Import") : i < r
        /\ networkMode # "CLIENT"
        /\ networkModeAtCall = "CLIENT" => Cardinality(TracePositions("Close")) = 1
        /\ Cardinality(TracePositions("ServerSendMap"))
               = (IF networkMode = "SERVER" THEN 1 ELSE 0)
        /\ \A m \in TracePositions("ServerSendMap") :
               /\ \E i \in TracePositions("Import") : i < m
               /\ \E i \in TracePositions("GameLoadInit")
                          \cup TracePositions("ScenarioBegin") : i < m

\* A server that held tweener pairs has loaded a park and sent the map
C31_Witness ==
    /\ loadPc = "returned"
    /\ loadResult = "true"
    /\ networkMode = "SERVER"
    /\ "ServerSendMap" \in {loadTrace[i] : i \in 1..Len(loadTrace)}
    /\ ~tweenerPairs

\* ----------------------------------------------- claims on Initialise

\* C32: a context is initialised at most once. The context is marked
\* before any initialisation step runs; every call after the first throws
\* "Context already initialised." and performs no initialisation step,
\* whether the first call returned true or false.
C32_InitialisedAtMostOnce ==
    /\ initPc \in {"language", "path", "graphics"} => _initialised
    /\ initCallCount >= 1 => _initialised
    /\ \A i \in 2..Len(initStepsByCall) : initStepsByCall[i] = 0
    /\ initThrown = (IF initCallCount = 0 THEN 0 ELSE initCallCount - 1)
    /\ initPc = "threw" => initCallCount >= 2

\* A second call has thrown after a first call that returned false
C32_Witness ==
    /\ initPc = "threw"
    /\ initFailure # "none"
    /\ initCallCount = 2
    /\ initStepsByCall[1] >= 1

\* A second call has thrown after a first call that returned true
C32_WitnessAfterSuccess ==
    /\ initPc = "threw"
    /\ initFailure = "none"
    /\ initStepsByCall[1] = 3

\* ------------------------------------------------- claims on Fixed mode

\* C33: a poll in Fixed mode never calls the tweener's PreTick, PostTick or
\* Tween from its frame body, and it draws at most once and only after it
\* has run a tick; a Fixed poll that runs no tick sleeps and neither handles
\* input, updates the windows nor draws.
C33_FixedDrawsOnlyFreshTicks ==
    ((InPoll \/ pc = "frame_end") /\ ~useVariableFrame) =>
        /\ CallCount("PreTick") = 0
        /\ CallCount("PostTick") = 0
        /\ CallCount("Tween") = 0
        /\ CallCount("BeginDraw") <= 1
        /\ CallCount("BeginDraw") = 1 => pollTicks >= 1
        /\ \A d \in CallIndexes("BeginDraw") : \A t \in CallIndexes("Tick") : t < d
        /\ (pc = "frame_end" /\ pollTicks = 0) =>
               /\ CallCount("Sleep") = 1
               /\ CallCount("HandleInput") = 0
               /\ CallCount("WindowUpdateAll") = 0
               /\ CallCount("BeginDraw") = 0

\* A Fixed poll that ran two ticks and then drew
C33_Witness ==
    /\ pc = "frame_end"
    /\ ~useVariableFrame
    /\ pollTicks = 2
    /\ CallCount("BeginDraw") = 1
    /\ CallCount("Tween") = 0

\* --------------------------------------------------- claims on Launch

\* C34: a headless Launch performs startup action None or Open only (Open
\* exactly if Open was configured): it takes neither the Intro nor the Title
\* nor the Edit case, leaves gIntroState at None, and no tick that follows
\* takes the intro branch. A Launch that is not headless turns Title into
\* Intro exactly when the intro is to be played and keeps every other action.
C34_HeadlessLaunchSkipsIntro ==
    /\ (launchPc # "idle" /\ gOpenRCT2Headless) =>
            /\ gOpenRCT2StartupAction \in {"None", "Open"}
            /\ gOpenRCT2StartupAction = "Open" <=> startupConfigured = "Open"
            /\ gIntroState = "None"
            /\ ticksRun > 0 => TickCallIndexes({"IntroUpdate"}) = {}
    /\ (launchPc = "loop" /\ gOpenRCT2Headless) =>
            /\ launchTrace[1] \in {"None", "Open"}
            /\ \A i \in 1..Len(launchTrace) :
                    launchTrace[i] \notin {"EditorLoad", "EditorLoadLandscape"}
    /\ (launchPc # "idle" /\ ~gOpenRCT2Headless) =>
            /\ gOpenRCT2StartupAction = "Intro" <=>
                    \/ startupConfigured = "Intro"
                    \/ startupConfigured = "Title" /\ PlayIntro
            /\ gOpenRCT2StartupAction # "Intro" =>
                    gOpenRCT2StartupAction = startupConfigured

\* A headless process configured to play the intro has run a simulation step
C34_Witness ==
    /\ launchPc = "loop"
    /\ gOpenRCT2Headless
    /\ startupConfigured = "Intro"
    /\ ticksRun > 0
    /\ TickCallIndexes({"gameStateTick"}) # {}

\* A process with a window has promoted Title to Intro
C34_WitnessPromoted ==
    /\ launchPc = "loop"
    /\ ~gOpenRCT2Headless
    /\ startupConfigured = "Title"
    /\ gOpenRCT2StartupAction = "Intro"
    /\ gIntroState = "PublisherBegin"

====
